---- MODULE Spec2Model ----
(***************************************************************************)
(* A model of ossfs: the OSS (object storage) adapter for fsspec.          *)
(*                                                                         *)
(*   SpecFile  the buffered file handle OSSFile over one backend object    *)
(*             (src/src/ossfs/file.py driven by AbstractBufferedFile).     *)
(*   Spec      the filesystem over one bucket: listings, the directory     *)
(*             cache and the mutating operations (core.py, async_oss.py).  *)
(*   SpecRm    one delete and the bulk-delete calls it issues.             *)
(*   SpecCp    one cp_file, step by step, with the legs that can fail.     *)
(*   SpecCall  one operation at the boundary to the backend: _call_oss,    *)
(*             the error translator and the callers that decide on what    *)
(*             the backend answers.                                        *)
(*                                                                         *)
(* The backend (oss2 SDK and the OSS service) is modelled by the effect of *)
(* the calls the code issues through _call_oss.                            *)
(***************************************************************************)
EXTENDS Integers, Sequences, FiniteSets, TLC

VARIABLES
    obj,        \* SpecFile: the backend object at the handle's path
    fh,         \* SpecFile: the file handle (AbstractBufferedFile state)
    written,    \* SpecFile: ghost, the bytes passed to write() on this handle
    prev,       \* SpecFile: ghost, the previous finished write/append session
    rd,         \* SpecFile: the last _fetch_range call and its result
    impl,       \* Spec: which filesystem class the instance is ("sync" | "async")
    store,      \* Spec: the keys of the objects stored in the bucket
    dircache,   \* Spec: the instance's directory cache, norm_path -> listing
    last,       \* Spec: the last operation called, its arguments and outcome
    rmjob,      \* SpecRm: a delete in progress and the bulk-delete calls issued
    cpjob,      \* SpecCp: a copy in progress and the temporary local file
    call,       \* SpecCall: one operation at the backend boundary, its outcome
    lsjob,      \* SpecLs: the listings in progress and the list objects made
    wrjob       \* SpecRace: two write handles open on one path, their flushes

fileVars == <<obj, fh, written, prev, rd>>
fsVars == <<impl, store, dircache, last>>
jobVars == <<rmjob, cpjob, call, lsjob, wrjob>>
vars == <<obj, fh, written, prev, rd, impl, store, dircache, last, rmjob, cpjob,
          call, lsjob, wrjob>>

Min(a, b) == IF a < b THEN a ELSE b
Max(a, b) == IF a > b THEN a ELSE b

\* ------------------------------------------------------------------------
\* Bounds of the file-handle model
\* ------------------------------------------------------------------------
\* the handle's block size (bytes), scaled down
BlockSize == 2
\* most bytes written through one handle
MaxTotal == 4
\* longest single write() payload
MaxChunk == 3
\* longest object found at the path before the first open
MaxOld == 2

\* The code never looks into the bytes it moves, so a payload is modelled by
\* distinct tokens: the k-th byte ever written through a handle is k, and a
\* byte of an object that was there before is 0.  Any loss, duplication or
\* reordering of written bytes then shows in the stored sequence.
Fresh(k, n) == [i \in 1..n |-> k + i]
Old(n) == [i \in 1..n |-> 0]

None == -1

\* ------------------------------------------------------------------------
\* Backend object (one key of one bucket)
\* ------------------------------------------------------------------------
NoObject == [exists |-> FALSE, data |-> <<>>, appendable |-> FALSE]

\* bucket.append_object(key, position, value): the service verifies that
\* position is the object's current length (0 when there is no object) and
\* that an existing object is appendable; it answers next_position.
BackendAppendAt(o, position, value) ==
    IF ~o.exists
    THEN IF position = 0
         THEN [ok |-> TRUE,
               obj |-> [exists |-> TRUE, data |-> value, appendable |-> TRUE],
               next_position |-> Len(value)]
         ELSE [ok |-> FALSE, obj |-> o, next_position |-> 0]
    ELSE IF o.appendable /\ position = Len(o.data)
         THEN [ok |-> TRUE,
               obj |-> [o EXCEPT !.data = o.data \o value],
               next_position |-> Len(o.data) + Len(value)]
         ELSE [ok |-> FALSE, obj |-> o, next_position |-> 0]

\* OSSFileSystem.append_object
append_object(o, location, value) == BackendAppendAt(o, location, value)

\* bucket.get_object(key, byte_range=(start, end)) with
\* x-oss-range-behavior: standard.  The SDK sends "bytes=start-end", a range
\* whose last byte is included; a range reaching past the end is cut there.
get_object(o, start, end) ==
    SubSeq(o.data, start + 1, Min(end, Len(o.data) - 1) + 1)

\* ------------------------------------------------------------------------
\* OSSFile
\* ------------------------------------------------------------------------
\* (id, late, raised and found are ghost fields: which handle object this
\* is, the last call made on it after its close, what that call raised, and
\* the length of the object that was at the path when a write handle was
\* opened, None for no object; pos and at: the position the last append
\* request carried and the length the object had when it was sent)
NoHandle ==
    [mode |-> "none", buffer |-> <<>>, offset |-> None, loc |-> 0,
     forced |-> FALSE, closed |-> TRUE, size |-> 0, err |-> FALSE,
     sess |-> "none", chunks |-> 0, id |-> 0, late |-> "none", raised |-> "",
     found |-> None, pos |-> None, at |-> None]

NewHandle(mode, size) ==
    [mode |-> mode, buffer |-> <<>>, offset |-> None, loc |-> 0,
     forced |-> FALSE, closed |-> FALSE, size |-> size, err |-> FALSE,
     sess |-> mode, chunks |-> 0, id |-> 0, late |-> "none", raised |-> "",
     found |-> None, pos |-> None, at |-> None]

\* OSSFile._initiate_upload: the pair <<handle, object>> afterwards
InitiateKeepsObject(h, o) ==
    IF h.mode = "ab"
    THEN <<[h EXCEPT !.loc = IF o.exists THEN Len(o.data) ELSE 0], o>>
    ELSE <<[h EXCEPT !.loc = 0], o>>
_initiate_upload(h, o) ==
    IF h.mode = "ab"
    THEN <<[h EXCEPT !.loc = IF o.exists THEN Len(o.data) ELSE 0], o>>
    ELSE <<[h EXCEPT !.loc = 0], IF o.exists THEN NoObject ELSE o>>

\* the offset the chunk is appended at
ChunkPositionLoc(h) == h.loc
ChunkPosition(h) == h.offset

\* OSSFile._upload_chunk followed by the bookkeeping of flush():
\* offset += len(buffer), buffer reset.  A backend error propagates and
\* leaves the buffer as it was.  (sess and chunks are ghost fields: the mode
\* the handle was opened for writing in, and the append requests answered.)
_upload_chunk(h, o) ==
    LET r == append_object(o, ChunkPosition(h), h.buffer)
        g == [h EXCEPT !.pos = ChunkPosition(h), !.at = Len(o.data)]
    IN  IF r.ok
        THEN <<[g EXCEPT !.loc = r.next_position,
                         !.offset = h.offset + Len(h.buffer),
                         !.buffer = <<>>,
                         !.chunks = h.chunks + 1], r.obj>>
        ELSE <<[g EXCEPT !.err = TRUE], o>>

\* AbstractBufferedFile.flush(force)
flush(h, o, force) ==
    LET h1 == IF force THEN [h EXCEPT !.forced = TRUE] ELSE h
    IN  IF ~force /\ Len(h1.buffer) < BlockSize
        THEN <<h1, o>>
        ELSE IF h1.offset = None
             THEN LET i == _initiate_upload([h1 EXCEPT !.offset = 0], o)
                  IN  _upload_chunk(i[1], i[2])
             ELSE _upload_chunk(h1, o)

\* _fetch_range(start, end) of a read handle
_fetch_range(h, o, start, end) ==
    LET s == Max(start, 0)
        e == Min(h.size, end)
    IN  IF s >= e \/ s >= h.size THEN [data |-> <<>>, requests |-> 0]
        ELSE [data |-> get_object(o, s, e), requests |-> 1]

\* the tests AbstractBufferedFile.read and write make before anything else:
\* the mode, then closed ("I/O operation on closed file"), then forced;
\* the error raised, "" for none
RefusedByModeOnly(h, op) ==
    IF (op = "write" /\ h.mode \notin {"wb", "ab"})
          \/ (op = "read" /\ h.mode # "rb")
    THEN "ValueError" ELSE ""
Refused(h, op) ==
    IF (op = "write" /\ h.mode \notin {"wb", "ab"})
          \/ (op = "read" /\ h.mode # "rb")
    THEN "ValueError"
    ELSE IF h.closed THEN "ValueError"
    ELSE IF op = "write" /\ h.forced THEN "ValueError" ELSE ""

\* the filesystem machine at rest (the other specifications leave it there)
FsIdle ==
    /\ impl = "sync"
    /\ store = {}
    /\ dircache = [k \in {} |-> {}]
    /\ last = [op |-> "none"]

\* no delete, no copy and no boundary operation in progress
JobsIdle ==
    /\ rmjob = [status |-> "idle"]
    /\ cpjob = [pc |-> "idle"]
    /\ call = [op |-> "none"]
    /\ lsjob = [status |-> "idle"]
    /\ wrjob = [status |-> "idle"]

NoRead ==
    [valid |-> FALSE, start |-> 0, end |-> 0, data |-> <<>>, requests |-> 0]
NoSession == [mode |-> "none", payload |-> <<>>, err |-> FALSE]

InitFile ==
    /\ FsIdle
    /\ JobsIdle
    /\ obj \in {NoObject} \cup
               {[exists |-> TRUE, data |-> Old(n), appendable |-> a] :
                    n \in 0..MaxOld, a \in BOOLEAN}
    /\ fh = NoHandle
    /\ written = <<>>
    /\ prev = NoSession
    /\ rd = NoRead

\* fs.open(path, "wb" | "ab"): nothing is sent until the first flush
OpenWrite ==
    /\ fh.closed /\ fh.mode # "rb"
    /\ prev.mode = "none"
    /\ \E mode \in {"wb", "ab"} :
         /\ fh' = [NewHandle(mode, 0) EXCEPT
                      !.id = fh.id + 1,
                      !.found = IF obj.exists THEN Len(obj.data) ELSE None]
         /\ prev' = IF fh.mode \in {"wb", "ab"}
                    THEN [mode |-> fh.mode, payload |-> written, err |-> fh.err]
                    ELSE prev
    /\ written' = <<>>
    /\ rd' = NoRead
    /\ UNCHANGED <<obj, fsVars, jobVars>>

\* fs.open(path, "rb"): the size comes from info(path)
OpenRead ==
    /\ fh.closed
    /\ fh.mode \in {"wb", "ab"}
    /\ obj.exists
    /\ fh' = [fh EXCEPT !.mode = "rb", !.closed = FALSE,
                         !.size = Len(obj.data), !.id = fh.id + 1,
                         !.late = "none", !.raised = ""]
    /\ rd' = NoRead
    /\ UNCHANGED <<obj, written, prev, fsVars, jobVars>>

\* f.write(data): buffer, then flush once the buffer reaches the block size
Write ==
    /\ fh.mode \in {"wb", "ab"} /\ ~fh.closed /\ ~fh.forced
    /\ \E n \in 0..MaxChunk :
         /\ Len(written) + n <= MaxTotal
         /\ LET data == Fresh(Len(prev.payload) + Len(written), n)
                h1 == [fh EXCEPT !.buffer = fh.buffer \o data,
                                 !.loc = fh.loc + Len(data)]
                r == IF Len(h1.buffer) >= BlockSize
                     THEN flush(h1, obj, FALSE) ELSE <<h1, obj>>
            IN  /\ written' = written \o data
                /\ fh' = r[1]
                /\ obj' = r[2]
    /\ UNCHANGED <<prev, rd, fsVars, jobVars>>

\* f.flush()
Flush ==
    /\ fh.mode \in {"wb", "ab"} /\ ~fh.closed
    /\ LET r == flush(fh, obj, FALSE)
       IN  /\ fh' = r[1]
           /\ obj' = r[2]
    /\ UNCHANGED <<written, prev, rd, fsVars, jobVars>>

\* f.close() of a write handle: flush(force=True) unless already forced;
\* the handle is closed whether or not the flush raised
CloseWrite ==
    /\ fh.mode \in {"wb", "ab"} /\ ~fh.closed
    /\ LET r == IF fh.forced THEN <<fh, obj>> ELSE flush(fh, obj, TRUE)
       IN  /\ fh' = [r[1] EXCEPT !.closed = TRUE]
           /\ obj' = r[2]
    /\ UNCHANGED <<written, prev, rd, fsVars, jobVars>>

\* a read of [start, end) through the read handle
FetchRange ==
    /\ fh.mode = "rb" /\ ~fh.closed
    /\ \E start \in (0 - 1)..MaxTotal, end \in 0..(MaxTotal + 1) :
         \E r \in {_fetch_range(fh, obj, start, end)} :
            rd' = [valid |-> TRUE, start |-> start, end |-> end,
                   data |-> r.data, requests |-> r.requests]
    /\ UNCHANGED <<obj, fh, written, prev, fsVars, jobVars>>

\* f.close() of a read handle
CloseRead ==
    /\ fh.mode = "rb" /\ ~fh.closed
    /\ fh' = [fh EXCEPT !.closed = TRUE]
    /\ UNCHANGED <<obj, written, prev, rd, fsVars, jobVars>>

\* f.read() or f.write(data) on a handle after its close(): the call is
\* refused before anything is fetched or buffered
ClosedIo ==
    /\ fh.mode # "none" /\ fh.closed
    /\ \E op \in {"read", "write"} :
         fh' = [fh EXCEPT !.late = op, !.raised = Refused(fh, op)]
    /\ UNCHANGED <<obj, written, prev, rd, fsVars, jobVars>>

NextFile ==
    \/ OpenWrite \/ OpenRead \/ Write \/ Flush \/ CloseWrite \/ FetchRange
    \/ CloseRead \/ ClosedIo

SpecFile == InitFile /\ [][NextFile]_vars

\* ------------------------------------------------------------------------
\* Properties of the file handle
\* ------------------------------------------------------------------------

WholeRead == rd.valid /\ rd.start = 0 /\ rd.end = Len(obj.data)

\* C1: whatever the sequence of write calls on a write-mode handle, after
\* close the stored object is the concatenation of the written bytes (close
\* raises nothing), and reading the byte range [0, N) back returns them.
C1_WriteRoundTrip ==
    /\ (fh.sess = "wb" /\ fh.mode = "wb" /\ fh.closed)
          => (~fh.err /\ obj.exists /\ obj.data = written)
    /\ (fh.sess = "wb" /\ fh.mode = "rb" /\ rd.valid
            /\ rd.start = 0 /\ rd.end = Len(written))
          => rd.data = written

\* C1 witness: a write handle whose buffer reached the block size twice
\* (two block flushes and the final one) was closed and read back in full.
C1_Witness ==
    /\ fh.sess = "wb" /\ fh.mode = "rb" /\ fh.chunks >= 3
    /\ Len(written) >= 2 * BlockSize
    /\ rd.valid /\ rd.start = 0 /\ rd.end = Len(written) /\ rd.data = written

\* C1, second case: the empty payload.
C1_WitnessEmpty ==
    /\ fh.sess = "wb" /\ fh.mode = "wb" /\ fh.closed /\ written = <<>>
    /\ obj.exists /\ obj.data = <<>>

\* C2: a write handle wrote data and was closed, then an append handle on
\* the same path wrote extra and was closed: the object reads back as
\* data followed by extra.
C2_AppendAfterWrite ==
    /\ (prev.mode = "wb" /\ ~prev.err /\ fh.sess = "ab" /\ fh.mode = "ab"
            /\ fh.closed)
          => (obj.exists /\ obj.data = prev.payload \o written)
    /\ (prev.mode = "wb" /\ ~prev.err /\ fh.sess = "ab" /\ fh.mode = "rb"
            /\ WholeRead)
          => rd.data = prev.payload \o written

\* C2 holds when data is empty: the only case the append handle gets right.
C2_EmptyDataOnly ==
    (prev.mode = "wb" /\ ~prev.err /\ prev.payload = <<>> /\ fh.sess = "ab"
        /\ fh.mode = "ab" /\ fh.closed)
      => (~fh.err /\ obj.data = written)

\* C2, the failing case: data and extra both non-empty and the append
\* handle closed.
C2_FailingCase ==
    /\ prev.mode = "wb" /\ ~prev.err /\ prev.payload # <<>>
    /\ fh.sess = "ab" /\ fh.mode = "ab" /\ fh.closed /\ written # <<>>
    /\ fh.err /\ obj.data = prev.payload

\* C25: opening an existing object in write mode and closing the handle,
\* with or without writing, replaces the object: none of its earlier
\* content is retained, and closing without writing leaves an object of
\* size 0 at that path.
C25_WriteReplaces ==
    (fh.mode = "wb" /\ fh.closed /\ fh.found # None)
      => /\ ~fh.err
         /\ obj.exists /\ obj.data = written
         /\ written = <<>> => Len(obj.data) = 0

\* C25 witness: an object with content was found, nothing was written and
\* the handle was closed.
C25_Witness ==
    /\ fh.mode = "wb" /\ fh.closed /\ fh.found = MaxOld /\ prev.mode = "none"
    /\ written = <<>> /\ obj.exists /\ obj.data = <<>>

\* C25, second case: the object found was written by an earlier handle and
\* this handle wrote over it.
C25_WitnessOverwrite ==
    /\ fh.mode = "wb" /\ fh.closed /\ fh.found > 0
    /\ prev.mode = "wb" /\ prev.payload # <<>> /\ written # <<>>
    /\ obj.data = written

\* C26: every append request of a write or append handle carries a position
\* equal to the object's length at that moment: 0 for a write handle or a
\* missing object, the existing size for an append handle on an existing
\* object, afterwards the next position the server reported (no other
\* writer touches the object).
C26_AppendAtLength == fh.pos # None => fh.pos = fh.at

\* the requests of a write handle, and those of an append handle that found
\* no object or an empty one, do carry the object's length
C26_WriteHandleAtLength ==
    (fh.sess = "wb" \/ fh.found = None \/ fh.found = 0) => C26_AppendAtLength

\* C26, the failing case: the first request of an append handle on an
\* object of MaxOld bytes carried position 0.
C26_FailingCase ==
    /\ fh.sess = "ab" /\ fh.found = MaxOld /\ prev.mode = "none"
    /\ fh.pos = 0 /\ fh.at = MaxOld /\ fh.err

\* C16: once a file handle has been closed, every later read or write on it
\* fails with ValueError, and a closed handle never returns to a reading,
\* writing or appending state (a handle of another open is another handle).
C16_ClosedForGood ==
    /\ [](fh.late # "none" => (fh.raised = "ValueError" /\ fh.closed))
    /\ [][(fh.closed /\ fh'.id = fh.id) => fh'.closed]_vars

\* C16 witness: a write on a write handle after its close was refused.
C16_Witness ==
    /\ fh.mode = "wb" /\ fh.closed /\ fh.late = "write"
    /\ fh.raised = "ValueError"

\* C16, second case: a read on a read handle after its close was refused.
C16_WitnessRead ==
    /\ fh.mode = "rb" /\ fh.closed /\ fh.late = "read"
    /\ fh.raised = "ValueError"

\* C18: for a read handle on an object of size S, _fetch_range(start, end)
\* works on the span from max(start, 0) to min(end, S): an empty span, or
\* one that starts at or beyond S, gives empty bytes with no request and no
\* error; any other gives exactly min(end, S) - max(start, 0) bytes, the
\* object's bytes from the clamped start up to, not including, the clamped
\* end.
C18_FetchRangeSpan ==
    rd.valid
      => IF Max(rd.start, 0) >= Min(rd.end, fh.size)
            \/ Max(rd.start, 0) >= fh.size
         THEN rd.data = <<>> /\ rd.requests = 0
         ELSE /\ Len(rd.data) = Min(rd.end, fh.size) - Max(rd.start, 0)
              /\ rd.data = SubSeq(obj.data, Max(rd.start, 0) + 1,
                                  Min(rd.end, fh.size))

\* C18 holds of the empty spans and of the spans that reach the end of the
\* object.
C18_EmptyOrToTheEnd ==
    (rd.valid /\ (rd.end >= fh.size \/ Max(rd.start, 0) >= rd.end))
      => C18_FetchRangeSpan

\* C18, the failing case: a span that ends before the end of the object
\* came back with the byte at the clamped end as well.
C18_FailingCase ==
    /\ rd.valid /\ rd.start = 0 /\ rd.end = 1 /\ fh.size >= 2
    /\ Len(rd.data) = 2

\* ========================================================================
\* The filesystem over one bucket: paths, the backend listing, the
\* directory cache and the operations of OSSFileSystem / AioOSSFileSystem
\* ========================================================================

\* Paths are sequences of characters; "/" is the separator.
Slash == "/"
Bucket == <<"b">>
OtherBucket == <<"c">>
KeyP3 == <<"p", "3">>
KeyP3S == <<"p", "3", "/", "s">>

\* the keys an object can be stored under in the model
Keys == {KeyP3, KeyP3S}

Join(a, b) == a \o <<Slash>> \o b
PathOf(key) == Join(Bucket, key)

\* the paths handed to the mutating operations
KeyPaths == {PathOf(k) : k \in Keys}
\* the paths handed to the read-only operations: the key paths (a path has
\* no content when the store holds nothing at or under it), the bucket, and
\* spellings with a leading or a trailing slash
QueryPaths == KeyPaths \cup {Bucket,
                             <<Slash>> \o PathOf(KeyP3),
                             PathOf(KeyP3) \o <<Slash>>}

StartsWith(s, pre) ==
    /\ Len(pre) <= Len(s)
    /\ SubSeq(s, 1, Len(pre)) = pre

HasSlash(s) == \E i \in 1..Len(s) : s[i] = Slash

\* str.lstrip("/"), str.rstrip("/"), str.strip("/")
LStrip(s) ==
    LET k == CHOOSE n \in 0..Len(s) :
                 /\ \A i \in 1..n : s[i] = Slash
                 /\ (n = Len(s) \/ s[n + 1] # Slash)
    IN  SubSeq(s, k + 1, Len(s))
RStrip(s) ==
    LET k == CHOOSE n \in 0..Len(s) :
                 /\ \A i \in (n + 1)..Len(s) : s[i] = Slash
                 /\ (n = 0 \/ s[n] # Slash)
    IN  SubSeq(s, 1, k)
Strip(s) == LStrip(RStrip(s))

FirstSlash(s) == CHOOSE i \in 1..Len(s) : s[i] = Slash /\ \A j \in 1..(i - 1) : s[j] # Slash
LastSlash(s) == CHOOSE i \in 1..Len(s) : s[i] = Slash /\ \A j \in (i + 1)..Len(s) : s[j] # Slash

\* the literals of _strip_protocol
OssScheme == <<"o", "s", "s", ":", "/", "/">>
Http == <<"h", "t", "t", "p", ":", "/", "/">>
Https == <<"h", "t", "t", "p", "s", ":", "/", "/">>
Oss == <<"o", "s", "s">>
AliyuncsCom == <<"a", "l", "i", "y", "u", "n", "c", "s", ".", "c", "o", "m">>

\* if path_string.startswith("oss://"): path_string = path_string[5:]
StripWholeScheme(path) ==
    IF StartsWith(path, OssScheme) THEN SubSeq(path, 7, Len(path)) ELSE path
StripOss(path) ==
    IF StartsWith(path, OssScheme) THEN SubSeq(path, 6, Len(path)) ELSE path

\* re.match(r"https?://(?P<endpoint>oss.+aliyuncs\.com)(?P<path>/.+)"):
\* the positions at which group "path" can start
SchemeLen(path) ==
    IF StartsWith(path, Http) THEN Len(Http)
    ELSE IF StartsWith(path, Https) THEN Len(Https) ELSE 0
PathStarts(path, n) ==
    {j \in 1..(Len(path) - 1) :
        /\ n > 0
        /\ Len(path) >= n + 3 /\ SubSeq(path, n + 1, n + 3) = Oss
        /\ j - Len(AliyuncsCom) >= n + 5
        /\ SubSeq(path, j - Len(AliyuncsCom), j - 1) = AliyuncsCom
        /\ path[j] = Slash}
\* ".+" is greedy: the endpoint is the longest one, matcher["path"] starts
\* at the last position
Matched(path, starts) ==
    IF starts = {} THEN path
    ELSE SubSeq(path, CHOOSE j \in starts : \A k \in starts : k <= j, Len(path))
StripUrl(path) == Matched(path, PathStarts(path, SchemeLen(path)))

\* BaseOSSFileSystem._strip_protocol; root_marker is ""
_strip_protocol(path) == StripUrl(StripOss(path))

\* BaseOSSFileSystem.split_path: <<bucket, key>>
split_path(path) ==
    LET q == LStrip(_strip_protocol(path))
    IN  IF ~HasSlash(q) THEN <<q, <<>>>>
        ELSE <<SubSeq(q, 1, FirstSlash(q) - 1),
               SubSeq(q, FirstSlash(q) + 1, Len(q))>>

\* AbstractFileSystem._parent with the root marker ""
ParentOf(path) ==
    IF HasSlash(path) THEN SubSeq(path, 1, LastSlash(path) - 1) ELSE <<>>
_parent(path) == ParentOf(_strip_protocol(path))

\* the ancestors popped by the loop of invalidate_cache
RECURSIVE AncestorChain(_)
AncestorChain(norm_path) ==
    IF norm_path = <<>> THEN {}
    ELSE {norm_path} \cup AncestorChain(_parent(norm_path))

Drop(cache, keys) == [k \in (DOMAIN cache) \ keys |-> cache[k]]
Put(cache, key, value) == [k \in (DOMAIN cache) \cup {key} |->
                              IF k = key THEN value ELSE cache[k]]

\* BaseOSSFileSystem.invalidate_cache(path), path given
PoppedWithRoot(norm_path) == {norm_path, <<>>} \cup AncestorChain(norm_path)
Popped(norm_path) == {norm_path} \cup AncestorChain(norm_path)
InvalidateUnstripped(cache, path) == Drop(cache, Popped(_strip_protocol(path)))
invalidate_cache(cache, path) ==
    Drop(cache, Popped(LStrip(_strip_protocol(path))))

File(name) == [name |-> name, type |-> "file"]
Directory(name) == [name |-> name, type |-> "directory"]

\* oss2.ObjectIterator(bucket, prefix, delimiter) rendered as info dicts by
\* _get_object_info_list / _transfer_object_info_to_dict: with delimiter "/"
\* a key with no further "/" after the prefix is a file, and the keys that
\* have one are grouped into the common prefix that ends at it; with an
\* empty delimiter every key under the prefix is a file.
TailOf(key, prefix) == SubSeq(key, Len(prefix) + 1, Len(key))
CommonPrefix(key, prefix) ==
    SubSeq(key, 1, Len(prefix) + FirstSlash(TailOf(key, prefix)))

BackendList(st, prefix, delimiter) ==
    LET under == {k \in st : StartsWith(k, prefix)}
    IN  IF delimiter = ""
        THEN {File(PathOf(k)) : k \in under}
        ELSE {File(PathOf(k)) : k \in {u \in under : ~HasSlash(TailOf(u, prefix))}}
             \cup
             {Directory(PathOf(CommonPrefix(k, prefix))) :
                  k \in {u \in under : HasSlash(TailOf(u, prefix))}}

\* the renaming at the end of the sync _ls_dir: a leading "/" is put back
Slashed(path, infos) ==
    IF Len(path) > 0 /\ path[1] = Slash
    THEN {[e EXCEPT !.name = <<Slash>> \o e.name] : e \in infos}
    ELSE infos

\* the prefix handed to the backend: f"{key}/{prefix}" when there is a key
ListPrefix(key, prefix) == IF key # <<>> THEN Join(key, prefix) ELSE prefix

\* the branch of the sync _ls_dir that goes around the cache
SyncBypassAnd(delimiter, prefix) == delimiter = "" /\ prefix # <<>>
SyncBypass(delimiter, prefix) == delimiter = "" \/ prefix # <<>>

\* OSSFileSystem._ls_dir, its two branches and the renaming, given what the
\* backend lists under the prefix: [infos, cache, queried]
LsDirResult(path, norm_path, cache, listed, bypass) ==
    IF bypass
    THEN [infos |-> Slashed(path, listed), cache |-> cache, queried |-> TRUE]
    ELSE IF norm_path \notin DOMAIN cache
    THEN [infos |-> Slashed(path, listed),
          cache |-> Put(cache, norm_path, listed), queried |-> TRUE]
    ELSE [infos |-> Slashed(path, cache[norm_path]),
          cache |-> cache, queried |-> FALSE]

LsDirNorm(st, cache, path, norm_path, delimiter, prefix) ==
    LsDirResult(path, norm_path, cache,
                BackendList(st, ListPrefix(split_path(norm_path)[2], prefix),
                            delimiter),
                SyncBypass(delimiter, prefix))

\* OSSFileSystem._ls_dir(path, delimiter, prefix)
_ls_dir(st, cache, path, delimiter, prefix) ==
    LsDirNorm(st, cache, path, Strip(path), delimiter, prefix)

\* the condition under which the async _ls_dir stores what it listed; the
\* prefix it tests is the one already joined with the key
AsyncStores(prefix, delimiter) == prefix = <<>> /\ delimiter = "/"

\* the condition under which the async _ls_dir answers from the cache
AsyncReadsCache(cache, norm_path, refresh, prefix, delimiter) ==
    norm_path \in DOMAIN cache /\ ~refresh /\ prefix = <<>> /\ delimiter # ""

\* AioOSSFileSystem._ls_dir given the listing: [infos, cache, queried]
AioLsDirResult(norm_path, cache, files, reads, stores) ==
    IF reads
    THEN [infos |-> cache[norm_path], cache |-> cache, queried |-> FALSE]
    ELSE [infos |-> files,
          cache |-> IF stores THEN Put(cache, norm_path, files) ELSE cache,
          queried |-> TRUE]

AioLsDirPrefix(st, cache, norm_path, refresh, delimiter, prefix, joined) ==
    AioLsDirResult(norm_path, cache, BackendList(st, joined, delimiter),
                   AsyncReadsCache(cache, norm_path, refresh, prefix, delimiter),
                   AsyncStores(joined, delimiter))

AioLsDirNorm(st, cache, norm_path, refresh, delimiter, prefix) ==
    AioLsDirPrefix(st, cache, norm_path, refresh, delimiter, prefix,
                   ListPrefix(split_path(norm_path)[2], prefix))

\* AioOSSFileSystem._ls_dir(path, refresh, delimiter, prefix)
Aio_ls_dir(st, cache, path, refresh, delimiter, prefix) ==
    AioLsDirNorm(st, cache, Strip(path), refresh, delimiter, prefix)

\* OSSFileSystem._ls_object
_ls_object(st, path) ==
    IF split_path(path)[2] \in st \ {<<>>} THEN {File(path)} ELSE {}

\* OSSFileSystem._ls_bucket
_ls_bucket == {Directory(Bucket)}

\* OSSFileSystem.ls: [infos, cache]
LsListed(st, r, path) ==
    [infos |-> IF r.infos = {} THEN _ls_object(st, path) ELSE r.infos,
     cache |-> r.cache]

ls(st, cache, path) ==
    IF split_path(path)[1] # <<>>
    THEN LsListed(st, _ls_dir(st, cache, path, "/", <<>>), path)
    ELSE [infos |-> _ls_bucket, cache |-> cache]

\* AioOSSFileSystem._ls before its decorator: [infos, cache]
AioLsParent(r2, norm_path) ==
    [infos |-> {f \in r2.infos :
                   Strip(f.name) = norm_path /\ f.type # "directory"},
     cache |-> r2.cache]
AioLsListed(st, r1, path, norm_path, refresh) ==
    IF r1.infos = {} /\ HasSlash(norm_path)
    THEN AioLsParent(Aio_ls_dir(st, r1.cache, _parent(path), refresh, "/", <<>>),
                     norm_path)
    ELSE [infos |-> r1.infos, cache |-> r1.cache]
Aio_ls(st, cache, path, refresh) ==
    IF Strip(path) # <<>>
    THEN AioLsListed(st, Aio_ls_dir(st, cache, path, refresh, "/", <<>>),
                     path, Strip(path), refresh)
    ELSE [infos |-> _ls_bucket, cache |-> Put(cache, <<>>, _ls_bucket)]

\* ord(c) of the characters paths are made of
Ord(c) ==
    CASE c = "/" -> 47 [] c = "3" -> 51 [] c = "b" -> 98 [] c = "c" -> 99
      [] c = "p" -> 112 [] c = "s" -> 115

\* a < b for two str
StrLess(a, b) ==
    \E i \in 1..(Min(Len(a), Len(b)) + 1) :
        /\ \A j \in 1..(i - 1) : a[j] = b[j]
        /\ i <= Len(b)
        /\ (i <= Len(a) => Ord(a[i]) < Ord(b[i]))

\* sorted(seq, key=...): keys[i] is the key of seq[i]; the sort is stable
Rank(keys, i) ==
    1 + Cardinality({j \in 1..Len(keys) :
                        StrLess(keys[j], keys[i]) \/ (keys[j] = keys[i] /\ j < i)})
Unsorted(seq, keys) == seq
sorted(seq, keys) ==
    [r \in 1..Len(seq) |-> seq[CHOOSE i \in 1..Len(seq) : Rank(keys, i) = r]]

NamesOf(infos) == [i \in 1..Len(infos) |-> infos[i].name]

\* the end of OSSFileSystem.ls for detail=True and for detail=False
LsDetail(infos) == sorted(infos, NamesOf(infos))
LsNames(infos) == sorted(NamesOf(infos), NamesOf(infos))

\* _copy_and_pretify_list(path, result, detail), the decorator of the async
\* _ls, for detail=True and for detail=False
Pretified(path, name) ==
    IF Len(path) > 0 /\ path[1] = Slash THEN <<Slash>> \o LStrip(name)
    ELSE LStrip(name)
PretifiedList(path, result) ==
    [i \in 1..Len(result) |->
        [result[i] EXCEPT !.name = Pretified(path, result[i].name)]]
PretifyDetail(path, result) == LsDetail(PretifiedList(path, result))
PretifyNames(path, result) == LsNames(PretifiedList(path, result))

\* the orders in which a listing can come out of the SDK's iterator
Orderings(S) ==
    {q \in [1..Cardinality(S) -> S] : \A e \in S : \E i \in DOMAIN q : q[i] = e}

\* OSSFileSystem._directory_exists: [res, cache]
DirectoryListed(r) == [res |-> r.infos # {}, cache |-> r.cache]
_directory_exists(st, cache, dirname) ==
    DirectoryListed(_ls_dir(st, cache, dirname, "/", <<>>))

\* OSSFileSystem.exists (the bucket of the model exists, so _bucket_exist
\* answers true): [res, cache]
ExistsKey(st, cache, path, obj_name) ==
    IF obj_name = <<>> THEN [res |-> TRUE, cache |-> cache]
    ELSE IF obj_name \in st THEN [res |-> TRUE, cache |-> cache]
    ELSE _directory_exists(st, cache, path)

exists(st, cache, path) == ExistsKey(st, cache, path, split_path(path)[2])

\* AbstractFileSystem.info over OSSFileSystem.ls: [found, type, cache].
\* The listings are sorted by name, so of a file and a directory of one name
\* the file comes first.
FirstType(out, path) ==
    IF File(path) \in out THEN "file" ELSE (CHOOSE o \in out : TRUE).type

InfoOut(l2, out1, path) ==
    IF Cardinality(out1) = 1
    THEN [found |-> TRUE, type |-> FirstType(out1, path), cache |-> l2.cache]
    ELSE IF out1 # {} \/ l2.infos # {}
    THEN [found |-> TRUE, type |-> "directory", cache |-> l2.cache]
    ELSE [found |-> FALSE, type |-> "none", cache |-> l2.cache]

InfoSelf(l2, path) ==
    InfoOut(l2, {o \in l2.infos : RStrip(o.name) = RStrip(path)}, path)

InfoParent(st, l1, out, path) ==
    IF out # {}
    THEN [found |-> TRUE, type |-> FirstType(out, path), cache |-> l1.cache]
    ELSE InfoSelf(ls(st, l1.cache, path), path)

InfoListed(st, l1, path) ==
    InfoParent(st, l1, {o \in l1.infos : RStrip(o.name) = path}, path)

info(st, cache, path) == InfoListed(st, ls(st, cache, _parent(path)), path)

\* AbstractFileSystem.walk over OSSFileSystem.ls, as OSSFileSystem.find
\* consumes it with withdirs=True: the names of every entry listed under the
\* directories in todo, and the cache the listings leave behind.
RECURSIVE Walk(_, _, _, _)
RECURSIVE WalkDir(_, _, _, _, _)
RECURSIVE WalkListed(_, _, _, _, _)
WalkListed(st, l, d, todo, names) ==
    Walk(st, l.cache,
         (todo \ {d}) \cup {RStrip(e.name) :
                               e \in {i \in l.infos : i.type = "directory"
                                                      /\ RStrip(i.name) # d}},
         names \cup {e.name : e \in l.infos})
WalkDir(st, cache, d, todo, names) ==
    WalkListed(st, ls(st, cache, d), d, todo, names)
Walk(st, cache, todo, names) ==
    IF todo = {} THEN [names |-> names, cache |-> cache]
    ELSE WalkDir(st, cache, CHOOSE x \in todo : TRUE, todo, names)

\* OSSFileSystem.find(path, withdirs=True), no prefix: [names, cache]
FindIsFile(w, i, path) ==
    [names |-> IF i.found /\ i.type = "file" THEN w.names \cup {path}
               ELSE w.names,
     cache |-> i.cache]
FindWalked(st, w, path) == FindIsFile(w, info(st, w.cache, path), path)
find(st, cache, path) == FindWalked(st, Walk(st, cache, {path}, {}), path)

\* AbstractFileSystem.expand_path for one path without glob characters:
\* [names, cache]; an empty result raises FileNotFoundError
ExpandExists(f, e, path) ==
    [names |-> IF e.res THEN f.names \cup {path} ELSE f.names,
     cache |-> e.cache]
ExpandFound(st, f, path) ==
    IF path \in f.names THEN f
    ELSE ExpandExists(f, exists(st, f.cache, path), path)
expand_path(st, cache, path, recursive) ==
    IF ~recursive THEN [names |-> {path}, cache |-> cache]
    ELSE ExpandFound(st, find(st, cache, path), path)

\* what rm invalidates once the keys are deleted
RmInvalidate(cache, path) == invalidate_cache(cache, _parent(path))

\* OSSFileSystem.rm(path, recursive): [store, cache, ok]
RmExpanded(st, e, path) ==
    IF e.names = {}
    THEN [store |-> st, cache |-> e.cache, ok |-> FALSE]
    ELSE [store |-> st \ {split_path(n)[2] : n \in e.names},
          cache |-> RmInvalidate(e.cache, path),
          ok |-> TRUE]
rm(st, cache, path, recursive) ==
    RmExpanded(st, expand_path(st, cache, path, recursive), path)

\* AbstractFileSystem.rm_file -> OSSFileSystem._rm(path)
rm_file(st, cache, path) ==
    [store |-> st \ {split_path(path)[2]},
     cache |-> invalidate_cache(cache, _parent(path)),
     ok |-> TRUE]

\* OSSFileSystem.put_file(lpath, rpath) for a local file
put_file(st, cache, rpath) ==
    [store |-> st \cup {split_path(rpath)[2]},
     cache |-> invalidate_cache(cache, _parent(rpath)),
     ok |-> TRUE]

\* OSSFileSystem.pipe_file(path, value)
pipe_file(st, cache, path) ==
    [store |-> st \cup {split_path(path)[2]},
     cache |-> invalidate_cache(cache, _parent(path)),
     ok |-> TRUE]

\* OSSFileSystem.cp_file(path1, path2) inside one bucket: copy_object
\* answers NoSuchKey for a missing source, which is raised
cp_file(st, cache, path1, path2) ==
    IF split_path(path1)[2] \notin st
    THEN [store |-> st, cache |-> cache, ok |-> FALSE]
    ELSE [store |-> st \cup {split_path(path2)[2]},
          cache |-> invalidate_cache(cache, _parent(path2)),
          ok |-> TRUE]

\* OSSFileSystem.append_object(path, location, value): answered when the
\* location is the object's length (0 for a new object), refused otherwise
FsAppend(st, cache, path, accepted) ==
    [store |-> IF accepted THEN st \cup {split_path(path)[2]} ELSE st,
     cache |-> cache,
     ok |-> accepted]

\* OSSFileSystem.touch(path, truncate): opens a write handle and closes it.
\* close() flushes: _initiate_upload (exists, rm_file) and one empty append;
\* then close() invalidates path and its parent, and touch the parent again.
\* [store, cache, ok, wrote]
TouchAppended(a, path) ==
    [store |-> a.store,
     cache |-> invalidate_cache(
                   invalidate_cache(invalidate_cache(a.cache, path),
                                    _parent(path)),
                   _parent(path)),
     ok |-> TRUE, wrote |-> TRUE]
TouchClosed(r1, path) ==
    TouchAppended(FsAppend(r1.store, r1.cache, path, TRUE), path)
TouchInitiated(st, e1, path) ==
    TouchClosed(IF e1.res THEN rm_file(st, e1.cache, path)
                ELSE [store |-> st, cache |-> e1.cache, ok |-> TRUE], path)
TouchWrite(st, c0, path) == TouchInitiated(st, exists(st, c0, path), path)
TouchChecked(st, e0, path) ==
    IF e0.res
    THEN [store |-> st, cache |-> e0.cache, ok |-> TRUE, wrote |-> FALSE]
    ELSE TouchWrite(st, e0.cache, path)
touch(st, cache, path, truncate) ==
    IF truncate THEN TouchWrite(st, cache, path)
    ELSE TouchChecked(st, exists(st, cache, path), path)

\* AioOSSFileSystem._pipe_file(path, value) below the multipart threshold
Aio_pipe_file(st, cache, path) ==
    [store |-> st \cup {split_path(path)[2]},
     cache |-> invalidate_cache(cache, path),
     ok |-> TRUE]

\* AioOSSFileSystem._rm_file(path)
Aio_rm_file(st, cache, path) ==
    [store |-> st \ {split_path(path)[2]},
     cache |-> invalidate_cache(cache, _parent(path)),
     ok |-> TRUE]

\* AioOSSFileSystem._bulk_delete(pathlist) of up to 1000 paths of one
\* bucket: _get_batch_delete_key_list invalidates the parent of each path,
\* then the keys are deleted in one request
Aio_bulk_delete(st, cache, pathlist) ==
    [store |-> st \ {split_path(q)[2] : q \in pathlist},
     cache |-> Drop(cache,
                    UNION {DOMAIN cache \ DOMAIN invalidate_cache(cache, _parent(q)) :
                              q \in pathlist}),
     ok |-> TRUE]

\* ------------------------------------------------------------------------
\* The filesystem as a state machine
\* ------------------------------------------------------------------------
EmptyCache == [k \in {} |-> {}]

NoOp == [op |-> "none", path |-> <<>>, ok |-> TRUE, wasObject |-> FALSE,
         recursive |-> FALSE, delimiter |-> "/", prefix |-> <<>>,
         refresh |-> FALSE, cached |-> FALSE, queried |-> FALSE, infos |-> {},
         listed |-> <<>>, detail |-> <<>>, names |-> <<>>, dropped |-> {}]

Mutation(op, path, ok, wasObject, recursive) ==
    [NoOp EXCEPT !.op = op, !.path = path, !.ok = ok,
                 !.wasObject = wasObject, !.recursive = recursive]

Delimiters == {"/", ""}
PrefixFilters == {<<>>, <<"p">>}

FileIdle ==
    /\ obj = NoObject
    /\ fh = NoHandle
    /\ written = <<>>
    /\ prev = NoSession
    /\ rd = NoRead

Init ==
    /\ FileIdle
    /\ JobsIdle
    /\ impl \in {"sync", "async"}
    /\ store \in SUBSET Keys
    /\ dircache = EmptyCache
    /\ last = NoOp

Apply(r, op, path, wasObject, recursive) ==
    /\ store' = r.store
    /\ dircache' = r.cache
    /\ last' = Mutation(op, path, r.ok, wasObject, recursive)
    /\ UNCHANGED <<impl, fileVars, jobVars>>

IsObject(path) == split_path(path)[2] \in store

\* fs._ls_dir(path, delimiter=..., prefix=...)
LsDir ==
    /\ impl = "sync"
    /\ \E path \in QueryPaths, delimiter \in Delimiters, prefix \in PrefixFilters :
         \E r \in {_ls_dir(store, dircache, path, delimiter, prefix)} :
             /\ dircache' = r.cache
             /\ last' = [NoOp EXCEPT !.op = "ls_dir", !.path = path,
                            !.delimiter = delimiter, !.prefix = prefix,
                            !.cached = Strip(path) \in DOMAIN dircache,
                            !.queried = r.queried, !.infos = r.infos]
    /\ UNCHANGED <<impl, store, fileVars, jobVars>>

\* fs._ls_dir(path, refresh, delimiter=..., prefix=...) of the async class
AioLsDir ==
    /\ impl = "async"
    /\ \E path \in QueryPaths, delimiter \in Delimiters, prefix \in PrefixFilters,
          refresh \in BOOLEAN :
         \E r \in {Aio_ls_dir(store, dircache, path, refresh, delimiter, prefix)} :
             /\ dircache' = r.cache
             /\ last' = [NoOp EXCEPT !.op = "ls_dir", !.path = path,
                            !.delimiter = delimiter, !.prefix = prefix,
                            !.refresh = refresh,
                            !.cached = Strip(path) \in DOMAIN dircache,
                            !.queried = r.queried, !.infos = r.infos]
    /\ UNCHANGED <<impl, store, fileVars, jobVars>>

\* fs.ls(path, detail=True) and fs.ls(path, detail=False) of one listing
Ls ==
    /\ impl = "sync"
    /\ \E path \in QueryPaths :
         \E r \in {ls(store, dircache, path)} :
             \E infos \in Orderings(r.infos) :
                 /\ dircache' = r.cache
                 /\ last' = [NoOp EXCEPT !.op = "ls", !.path = path,
                                !.listed = infos,
                                !.detail = LsDetail(infos),
                                !.names = LsNames(infos)]
    /\ UNCHANGED <<impl, store, fileVars, jobVars>>

\* the same of the async class
AioLs ==
    /\ impl = "async"
    /\ \E path \in QueryPaths, refresh \in BOOLEAN :
         \E r \in {Aio_ls(store, dircache, path, refresh)} :
             \E infos \in Orderings(r.infos) :
                 /\ dircache' = r.cache
                 /\ last' = [NoOp EXCEPT !.op = "ls", !.path = path,
                                !.refresh = refresh, !.listed = infos,
                                !.detail = PretifyDetail(path, infos),
                                !.names = PretifyNames(path, infos)]
    /\ UNCHANGED <<impl, store, fileVars, jobVars>>

\* fs.exists(path)
Exists ==
    /\ impl = "sync"
    /\ \E path \in QueryPaths :
         /\ dircache' = exists(store, dircache, path).cache
         /\ last' = [NoOp EXCEPT !.op = "exists"]
    /\ UNCHANGED <<impl, store, fileVars, jobVars>>

\* fs.info(path)
Info ==
    /\ impl = "sync"
    /\ \E path \in QueryPaths :
         LET r == info(store, dircache, path)
         IN  /\ dircache' = r.cache
             /\ last' = [NoOp EXCEPT !.op = "info"]
    /\ UNCHANGED <<impl, store, fileVars, jobVars>>

\* fs.rm(path, recursive=...)
Rm ==
    /\ impl = "sync"
    /\ \E path \in KeyPaths, recursive \in BOOLEAN :
         Apply(rm(store, dircache, path, recursive), "rm", path,
               IsObject(path), recursive)

\* fs.rm_file(path)
RmFile ==
    /\ impl = "sync"
    /\ \E path \in KeyPaths :
         Apply(rm_file(store, dircache, path), "rm_file", path,
               IsObject(path), FALSE)

\* fs.put_file(lpath, rpath)
PutFile ==
    /\ impl = "sync"
    /\ \E path \in KeyPaths :
         Apply(put_file(store, dircache, path), "put_file", path,
               IsObject(path), FALSE)

\* fs.pipe_file(path, value)
PipeFile ==
    /\ impl = "sync"
    /\ \E path \in KeyPaths :
         Apply(pipe_file(store, dircache, path), "pipe_file", path,
               IsObject(path), FALSE)

\* fs.touch(path, truncate=...)
Touch ==
    /\ impl = "sync"
    /\ \E path \in KeyPaths, truncate \in BOOLEAN :
         \E r \in {touch(store, dircache, path, truncate)} :
             Apply(r, IF r.wrote THEN "touch" ELSE "touch_noop",
                   path, IsObject(path), FALSE)

\* fs.cp_file(path1, path2), both in the bucket
CpFile ==
    /\ impl = "sync"
    /\ \E path1 \in KeyPaths, path2 \in KeyPaths :
         Apply(cp_file(store, dircache, path1, path2), "cp_file", path2,
               IsObject(path2), FALSE)

\* fs.append_object(path, location, value)
AppendObject ==
    /\ impl = "sync"
    /\ \E path \in KeyPaths, accepted \in BOOLEAN :
         Apply(FsAppend(store, dircache, path, accepted), "append_object", path,
               IsObject(path), FALSE)

\* the paths handed to invalidate_cache: also an oss:// spelling and one
\* with both a leading and a trailing slash
InvalidatePaths ==
    QueryPaths \cup {OssScheme \o PathOf(KeyP3S),
                     <<Slash>> \o PathOf(KeyP3S) \o <<Slash>>}

\* fs.invalidate_cache(path) and fs.invalidate_cache()
InvalidateCache ==
    /\ \/ \E path \in InvalidatePaths :
            /\ dircache' = invalidate_cache(dircache, path)
            /\ last' = [NoOp EXCEPT
                           !.op = "invalidate_cache", !.path = path,
                           !.dropped = DOMAIN dircache
                                         \ DOMAIN invalidate_cache(dircache, path)]
       \/ /\ dircache' = EmptyCache
          /\ last' = [NoOp EXCEPT !.op = "invalidate_cache()",
                                  !.dropped = DOMAIN dircache]
    /\ UNCHANGED <<impl, store, fileVars, jobVars>>

\* fs.pipe_file(path, value) of the async class
AioPipeFile ==
    /\ impl = "async"
    /\ \E path \in KeyPaths :
         Apply(Aio_pipe_file(store, dircache, path), "pipe_file", path,
               IsObject(path), FALSE)

\* fs.rm_file(path) of the async class
AioRmFile ==
    /\ impl = "async"
    /\ \E path \in KeyPaths :
         Apply(Aio_rm_file(store, dircache, path), "rm_file", path,
               IsObject(path), FALSE)

\* await fs._bulk_delete(pathlist)
AioBulkDeleteKeys ==
    /\ impl = "async"
    /\ \E pathlist \in (SUBSET KeyPaths) \ {{}} :
         Apply(Aio_bulk_delete(store, dircache, pathlist), "bulk_delete", <<>>,
               FALSE, FALSE)

Next ==
    \/ LsDir \/ AioLsDir \/ Ls \/ AioLs \/ Exists \/ Info \/ AioBulkDeleteKeys
    \/ Rm \/ RmFile \/ PutFile \/ PipeFile \/ Touch \/ CpFile \/ AppendObject
    \/ InvalidateCache \/ AioPipeFile \/ AioRmFile

Spec == Init /\ [][Next]_vars

\* ------------------------------------------------------------------------
\* Properties of the filesystem
\* ------------------------------------------------------------------------
KeyOf(path) == split_path(path)[2]
ObjectAt(path) == KeyOf(path) \in store
KeyUnder(path) == \E k \in store : StartsWith(k, KeyOf(path) \o <<Slash>>)
HasContent(path) == ObjectAt(path) \/ KeyUnder(path)
CachedEntryFor(path) ==
    \E k \in DOMAIN dircache : \E e \in dircache[k] : RStrip(e.name) = path

\* a path that is a proper prefix of the keys' names but no directory
PrefixOnly == PathOf(<<"p">>)

\* C3: after rm(path) on an existing object has returned, and nothing is left
\* stored at or under path, exists(path) is false and no cached listing has
\* an entry for path.
C3_RmThenAbsent ==
    (last.op = "rm" /\ last.ok /\ last.wasObject /\ ~HasContent(last.path))
      => /\ ~exists(store, dircache, last.path).res
         /\ ~CachedEntryFor(last.path)

\* C3, the failing case: a recursive rm of a path that held an object and
\* had keys under it; everything is deleted and exists still answers true.
C3_FailingCase ==
    /\ last.op = "rm" /\ last.ok /\ last.wasObject /\ last.recursive
    /\ store = {}
    /\ exists(store, dircache, last.path).res

\* C4: once a mutating operation (put_file, pipe_file, touch, rm, rm_file,
\* cp_file, append_object) has returned, the directory cache has no entry
\* keyed by the directory of the affected path or by an ancestor of it.
MutatingOps ==
    {"put_file", "pipe_file", "touch", "rm", "rm_file", "cp_file",
     "append_object"}
C4_MutationInvalidates ==
    (last.op \in MutatingOps /\ last.ok)
      => \A d \in AncestorChain(_parent(last.path)) : d \notin DOMAIN dircache

\* C4 without append_object: the other mutating operations do invalidate.
C4_OthersInvalidate ==
    (last.op \in MutatingOps \ {"append_object"} /\ last.ok)
      => \A d \in AncestorChain(_parent(last.path)) : d \notin DOMAIN dircache

\* C5: exists(P) is true exactly when an object with key P is stored or some
\* stored key begins with P followed by "/".
C5_ExistsIffContent ==
    \A path \in KeyPaths \cup {PrefixOnly} :
        exists(store, dircache, path).res <=> HasContent(path)

\* C5 with an empty cache: exists answers by the store alone, and a proper
\* prefix of the stored names is not taken for a directory.
C5_FreshExists ==
    \A path \in KeyPaths \cup {PrefixOnly} :
        exists(store, EmptyCache, path).res <=> HasContent(path)

\* C6: for a path at which no object is stored and under which no key
\* exists, exists(path) is false and info(path) finds nothing.
C6_NoContentNotFound ==
    \A path \in KeyPaths \cup {PrefixOnly} :
        ~HasContent(path)
          => /\ ~exists(store, dircache, path).res
             /\ ~info(store, dircache, path).found

\* C9: a standard listing (delimiter "/", no prefix, no refresh) of a path
\* that was not in the cache has queried the backend and stored the complete
\* listing under the normalized path; one of a path that was in the cache
\* has been answered without a query.
StandardListing(l) ==
    l.op = "ls_dir" /\ l.delimiter = "/" /\ l.prefix = <<>> /\ ~l.refresh
ListedNow(l) ==
    BackendList(store, ListPrefix(KeyOf(Strip(l.path)), l.prefix), l.delimiter)
C9_StandardListingCached ==
    /\ (StandardListing(last) /\ ~last.cached)
         => /\ last.queried
            /\ Strip(last.path) \in DOMAIN dircache
            /\ dircache[Strip(last.path)] = ListedNow(last)
    /\ (StandardListing(last) /\ last.cached) => ~last.queried

\* C9 for the sync class alone.
C9_SyncListingCached == (impl = "sync") => C9_StandardListingCached

\* C9, the failing case: the async class has listed a directory below the
\* bucket and has stored nothing.
C9_FailingCase ==
    /\ impl = "async" /\ StandardListing(last) /\ ~last.cached
    /\ Strip(last.path) \notin DOMAIN dircache

\* C10: a listing with a prefix filter or with an empty delimiter answers
\* with what the backend lists now, whatever the cache holds, and leaves the
\* directory cache as it was.
Bypassing(l) == l.op = "ls_dir" /\ (l.prefix # <<>> \/ l.delimiter = "")
C10_BypassLeavesCache ==
    [][Bypassing(last')
         => /\ dircache' = dircache
            /\ last'.queried
            /\ last'.infos = IF impl = "sync"
                             THEN Slashed(last'.path, ListedNow(last'))
                             ELSE ListedNow(last')]_vars

\* C10's case: a bypassing listing of a path whose cached listing differs
\* from what the backend lists.
C10_Witness ==
    /\ Bypassing(last)
    /\ Strip(last.path) \in DOMAIN dircache
    /\ dircache[Strip(last.path)] # ListedNow(last)
    /\ dircache[Strip(last.path)] # {}

\* the cache has no listing of the parent of a key the step deleted
ParentsDropped ==
    \A k \in store \ store' : _parent(PathOf(k)) \notin DOMAIN dircache'

\* C27: after a recursive delete of a directory has returned, the cache
\* holds no listing for the parent directory of any deleted key, the listing
\* of the deleted directory and of its sub-directories included.
C27_RecursiveRmDropsListings ==
    [][(last'.op = "rm" /\ last'.recursive /\ last'.ok) => ParentsDropped]_vars

\* one bulk-delete call of the async class does leave no such listing
C27_BulkDeleteDropsListings ==
    [][last'.op = "bulk_delete" => ParentsDropped]_vars

\* C27, the failing case: a recursive rm emptied the store and the listing
\* of the deleted directory is still cached.
C27_FailingCase ==
    /\ last.op = "rm" /\ last.recursive /\ last.ok
    /\ last.path = PathOf(KeyP3) /\ store = {}
    /\ PathOf(KeyP3) \in DOMAIN dircache

\* the cache key of a path: the normalized path without the slashes
\* around it
CacheKey(path) == Strip(_strip_protocol(path))

C28_WitnessTrailing ==
    /\ last.op = "invalidate_cache"
    /\ last.path = PathOf(KeyP3) \o <<Slash>>
    /\ last.dropped = {PathOf(KeyP3), Bucket}

\* C28, third case: no path.
C28_WitnessAll ==
    /\ last.op = "invalidate_cache()"
    /\ Cardinality(last.dropped) = 2 /\ DOMAIN dircache = {}

Ascending(names) ==
    \A i \in 1..(Len(names) - 1) : ~StrLess(names[i + 1], names[i])

\* C22: ls returns its entries in ascending lexicographic order of entry
\* name, and the detail form and the names-only form of the same listing
\* give the entries in the same order.
C22_LsSorted ==
    last.op = "ls"
      => /\ Ascending(last.names)
         /\ NamesOf(last.detail) = last.names
         /\ Len(last.names) = Len(last.listed)
         /\ \A i \in DOMAIN last.listed :
                \E k \in DOMAIN last.detail :
                    LStrip(last.detail[k].name) = LStrip(last.listed[i].name)

\* a listing of a file and a directory that came out of the iterator in
\* descending order, in the sync class
C22_Witness ==
    /\ last.op = "ls" /\ impl = "sync"
    /\ Len(last.listed) = 2
    /\ StrLess(last.listed[2].name, last.listed[1].name)
    /\ StrLess(last.names[1], last.names[2])

\* the same in the async class, asked with a leading slash
C22_WitnessAio ==
    /\ last.op = "ls" /\ impl = "async"
    /\ Len(last.listed) = 2
    /\ StrLess(last.listed[2].name, last.listed[1].name)
    /\ StrLess(last.names[1], last.names[2])

\* what listing a path gives the class in use: _ls_dir with its defaults
LsDirOf(path, refresh) ==
    IF impl = "sync" THEN _ls_dir(store, dircache, path, "/", <<>>).infos
    ELSE Aio_ls_dir(store, dircache, path, refresh, "/", <<>>).infos

\* the listing of the parent of a path; the parent of a bucket is the root
ParentListed(path, refresh) ==
    IF Strip(_parent(path)) = <<>> THEN _ls_bucket
    ELSE LsDirOf(_parent(path), refresh)

\* the file entries of that listing that carry the name of the path
OwnEntries(path, refresh) ==
    {f \in ParentListed(path, refresh) :
        Strip(f.name) = Strip(path) /\ f.type # "directory"}

\* C38: when listing a path yields no children and the listing of the
\* path's parent has a file entry (not a directory) of exactly that name, ls
\* returns only that file's own entry; when the parent has no such entry,
\* ls returns an empty list.
C38_LsFallback ==
    [][(last'.op = "ls" /\ LsDirOf(last'.path, last'.refresh) = {}) =>
          IF OwnEntries(last'.path, last'.refresh) # {}
          THEN /\ Len(last'.detail) = 1
               /\ last'.detail[1].type = "file"
               /\ Strip(last'.detail[1].name) = Strip(last'.path)
               /\ Len(last'.names) = 1
               /\ Strip(last'.names[1]) = Strip(last'.path)
          ELSE last'.detail = <<>> /\ last'.names = <<>>]_vars

\* every cached listing is what the backend lists now
CacheCoherent ==
    \A k \in DOMAIN dircache :
        dircache[k] = IF k = <<>> THEN _ls_bucket
                      ELSE BackendList(store, ListPrefix(KeyOf(k), <<>>), "/")

\* C38 from the states whose cache holds no stale listing
C38_CoherentFallback ==
    [][(CacheCoherent /\ last'.op = "ls"
          /\ LsDirOf(last'.path, last'.refresh) = {}) =>
          IF OwnEntries(last'.path, last'.refresh) # {}
          THEN /\ Len(last'.detail) = 1
               /\ last'.detail[1].type = "file"
               /\ Strip(last'.detail[1].name) = Strip(last'.path)
          ELSE last'.detail = <<>> /\ last'.names = <<>>]_vars

\* C38, the failing case: the sync class, after a recursive rm left the
\* listing of b/p3 cached, lists b/p3/s: the cached listing of the parent has
\* the file, ls returns nothing.
C38_FailingCase ==
    /\ impl = "sync" /\ last.op = "ls" /\ last.path = PathOf(KeyP3S)
    /\ last.detail = <<>>
    /\ PathOf(KeyP3) \in DOMAIN dircache
    /\ File(PathOf(KeyP3S)) \in dircache[PathOf(KeyP3)]

\* ========================================================================
\* SpecRm: one delete and the bulk-delete calls it issues
\* ========================================================================

\* the most keys _get_batch_delete_key_list lets one call carry
MaxKeysPerCall == 1000
\* the chunk length of OSSFileSystem.rm
RmChunkSizeOver == MaxKeysPerCall + 1
RmChunkSize == 1000
\* the default batch_size of AioOSSFileSystem._rm
DefaultBatchSize == 1000
\* the number of coroutines _rm lets run at a time
CoroBatch == 3

\* the expanded key list has up to MaxBatches full batches and one key more
MaxBatches == 2

\* the lengths of the expanded key list: around every multiple of the
\* limit, and one and a half times the limit
KeyCounts ==
    {1, 2, MaxKeysPerCall + MaxKeysPerCall \div 2}
      \cup {m * MaxKeysPerCall + d : m \in 1..MaxBatches, d \in {-1, 0, 1}}
\* the batch_size a caller of the async rm passes
BatchSizes == {DefaultBatchSize \div 2, DefaultBatchSize, DefaultBatchSize + 1}

\* range(0, n, num)
Range(n, num) == {i \in 0..(n - 1) : i % num = 0}
\* lst[i : i + num] of a list of n keys, as the positions it holds
Slice(n, i, num) == [lo |-> i + 1, hi |-> Min(i + num, n)]
SliceLen(c) == c.hi - c.lo + 1

Pending(job) == Range(job.n, job.batch_size) \ job.done
AllAtOnce(job, i) == TRUE
InChunk(job, i) == (i \div job.batch_size) \div CoroBatch = job.chunk

InitRm ==
    /\ FileIdle
    /\ FsIdle
    /\ JobsIdle

\* rm(path) is called and expand_path has answered n keys
RmStart ==
    /\ rmjob.status = "idle"
    /\ \E n \in KeyCounts, cls \in {"sync", "async"}, size \in BatchSizes :
         /\ cls = "sync" => size = DefaultBatchSize
         /\ rmjob' = [status |-> "running", impl |-> cls, n |-> n,
                      batch_size |-> IF cls = "sync" THEN RmChunkSize ELSE size,
                      done |-> {}, calls |-> {}, chunk |-> 0, failed |-> FALSE,
                      flying |-> {}]
    /\ UNCHANGED <<fileVars, fsVars, cpjob, call, lsjob, wrjob>>

\* one turn of the loop of OSSFileSystem.rm: the next chunk is deleted
RmBatch ==
    /\ rmjob.status = "running" /\ rmjob.impl = "sync"
    /\ Pending(rmjob) # {}
    /\ LET i == CHOOSE x \in Pending(rmjob) : \A y \in Pending(rmjob) : x <= y
       IN  rmjob' = [rmjob EXCEPT !.done = @ \cup {i},
                        !.calls = @ \cup {Slice(rmjob.n, i, rmjob.batch_size)}]
    /\ UNCHANGED <<fileVars, fsVars, cpjob, call, lsjob, wrjob>>

\* the loop of OSSFileSystem.rm is over
RmReturn ==
    /\ rmjob.status = "running" /\ rmjob.impl = "sync"
    /\ Pending(rmjob) = {}
    /\ rmjob' = [rmjob EXCEPT !.status = "returned"]
    /\ UNCHANGED <<fileVars, fsVars, cpjob, call, lsjob, wrjob>>

\* AioOSSFileSystem._bulk_delete of one slice, among those running together,
\* up to its request: a slice that is too long raises instead (flying is
\* the set of slices whose request is awaited)
AioBulkDelete ==
    /\ rmjob.status = "running" /\ rmjob.impl = "async"
    /\ \E i \in Pending(rmjob) \ rmjob.flying :
         /\ InChunk(rmjob, i)
         /\ LET pathlist == Slice(rmjob.n, i, rmjob.batch_size)
            IN  rmjob' = IF SliceLen(pathlist) > MaxKeysPerCall
                         THEN [rmjob EXCEPT !.done = @ \cup {i}, !.failed = TRUE]
                         ELSE [rmjob EXCEPT !.flying = @ \cup {i},
                                            !.calls = @ \cup {pathlist}]
    /\ UNCHANGED <<fileVars, fsVars, cpjob, call, lsjob, wrjob>>

\* the batch_delete_objects request of a slice is answered
AioBulkDeleted ==
    /\ rmjob.status = "running" /\ rmjob.impl = "async"
    /\ \E i \in rmjob.flying :
         rmjob' = [rmjob EXCEPT !.flying = @ \ {i}, !.done = @ \cup {i}]
    /\ UNCHANGED <<fileVars, fsVars, cpjob, call, lsjob, wrjob>>

\* _run_coros_in_chunks goes on to the next coroutines
AioNextChunk ==
    /\ rmjob.status = "running" /\ rmjob.impl = "async" /\ ~rmjob.failed
    /\ Pending(rmjob) # {}
    /\ \A i \in Pending(rmjob) : ~InChunk(rmjob, i)
    /\ rmjob' = [rmjob EXCEPT !.chunk = @ + 1]
    /\ UNCHANGED <<fileVars, fsVars, cpjob, call, lsjob, wrjob>>

\* AioOSSFileSystem._rm returns
AioRmReturn ==
    /\ rmjob.status = "running" /\ rmjob.impl = "async" /\ ~rmjob.failed
    /\ Pending(rmjob) = {}
    /\ rmjob' = [rmjob EXCEPT !.status = "returned"]
    /\ UNCHANGED <<fileVars, fsVars, cpjob, call, lsjob, wrjob>>

\* the ValueError of a slice that is too long comes out of _rm
AioRmRaise ==
    /\ rmjob.status = "running" /\ rmjob.impl = "async" /\ rmjob.failed
    /\ rmjob' = [rmjob EXCEPT !.status = "raised"]
    /\ UNCHANGED <<fileVars, fsVars, cpjob, call, lsjob, wrjob>>

NextRm ==
    \/ RmStart \/ RmBatch \/ RmReturn
    \/ AioBulkDelete \/ AioBulkDeleted \/ AioNextChunk \/ AioRmReturn
    \/ AioRmRaise

SpecRm == InitRm /\ [][NextRm]_vars

CarriedBy(k) == {c \in rmjob.calls : c.lo <= k /\ k <= c.hi}

\* C7: every bulk-delete call of a delete carries at most 1000 keys, no key
\* is carried twice, and once the delete has returned every one of the n
\* expanded keys has been carried by exactly one call.
C7_BatchesOfAtMostLimit ==
    rmjob.status # "idle"
      => /\ \A c \in rmjob.calls : SliceLen(c) >= 1 /\ SliceLen(c) <= MaxKeysPerCall
         /\ \A k \in 1..rmjob.n : Cardinality(CarriedBy(k)) <= 1
         /\ rmjob.status = "returned"
              => \A k \in 1..rmjob.n : Cardinality(CarriedBy(k)) = 1

\* C7's case: 1500 keys, deleted in a batch of 1000 and a batch of 500.
C7_Witness ==
    /\ rmjob.status = "returned" /\ rmjob.impl = "sync"
    /\ rmjob.n = MaxKeysPerCall + MaxKeysPerCall \div 2
    /\ rmjob.calls = {[lo |-> 1, hi |-> MaxKeysPerCall],
                      [lo |-> MaxKeysPerCall + 1,
                       hi |-> MaxKeysPerCall + MaxKeysPerCall \div 2]}

\* C7's case in the async class, default batch_size.
C7_WitnessAio ==
    /\ rmjob.status = "returned" /\ rmjob.impl = "async"
    /\ rmjob.batch_size = DefaultBatchSize
    /\ rmjob.n = MaxKeysPerCall + MaxKeysPerCall \div 2
    /\ Cardinality(rmjob.calls) = 2

\* C35: during an async delete at most 3 bulk-delete batches are in flight
\* at any moment, whatever the number of batches.
C35_AtMostThreeInFlight ==
    (rmjob.status # "idle" /\ rmjob.impl = "async")
      => Cardinality(rmjob.flying) <= CoroBatch

\* three batches are in flight and more batches wait for their turn
C35_Witness ==
    /\ rmjob.status = "running" /\ rmjob.impl = "async"
    /\ Cardinality(rmjob.flying) = CoroBatch
    /\ Cardinality(Pending(rmjob) \ rmjob.flying) >= 2

\* ========================================================================
\* SpecCp: one cp_file, step by step, with the legs that can fail
\* ========================================================================
CpPaths == {PathOf(KeyP3), PathOf(KeyP3S), Join(OtherBucket, KeyP3)}

InitCp ==
    /\ FileIdle
    /\ FsIdle
    /\ JobsIdle

\* cp_file(path1, path2) is called: the buckets are compared
CpStart ==
    /\ cpjob.pc = "idle"
    /\ \E cls \in {"sync", "async"}, path1 \in CpPaths, path2 \in CpPaths,
          srcExists \in BOOLEAN :
         cpjob' = [pc |-> IF split_path(path1)[1] # split_path(path2)[1]
                          THEN "ukey" ELSE "copy_object",
                   impl |-> cls, path1 |-> path1, path2 |-> path2,
                   srcExists |-> srcExists, temp |-> FALSE, copied |-> FALSE]
    /\ UNCHANGED <<fileVars, fsVars, rmjob, call, lsjob, wrjob>>

\* tempdir = "." + self.ukey(path1): a get_object of the source
CpUkey ==
    /\ cpjob.pc = "ukey"
    /\ \E ok \in BOOLEAN :
         cpjob' = [cpjob EXCEPT !.pc = IF ok /\ cpjob.srcExists
                                       THEN "get_file" ELSE "raised"]
    /\ UNCHANGED <<fileVars, fsVars, rmjob, call, lsjob, wrjob>>

\* get_file(path1, tempdir): the download leg; a failed download may have
\* created the local file already
CpGetFile ==
    /\ cpjob.pc = "get_file"
    /\ \E ok \in BOOLEAN, created \in BOOLEAN :
         /\ ok => created
         /\ cpjob' = [cpjob EXCEPT !.temp = created,
                                   !.pc = IF ok THEN "put_file" ELSE "raised"]
    /\ UNCHANGED <<fileVars, fsVars, rmjob, call, lsjob, wrjob>>

\* put_file(tempdir, path2): the upload leg
CpPutFile ==
    /\ cpjob.pc = "put_file"
    /\ \E ok \in BOOLEAN :
         cpjob' = [cpjob EXCEPT !.copied = ok,
                                !.pc = IF ok THEN "remove" ELSE "raised"]
    /\ UNCHANGED <<fileVars, fsVars, rmjob, call, lsjob, wrjob>>

\* os.remove(tempdir), and cp_file returns
CpRemove ==
    /\ cpjob.pc = "remove"
    /\ cpjob' = [cpjob EXCEPT !.temp = FALSE, !.pc = "returned"]
    /\ UNCHANGED <<fileVars, fsVars, rmjob, call, lsjob, wrjob>>

\* copy_object inside one bucket
CpCopyObject ==
    /\ cpjob.pc = "copy_object"
    /\ \E ok \in BOOLEAN :
         cpjob' = [cpjob EXCEPT !.copied = ok /\ cpjob.srcExists,
                                !.pc = IF ok /\ cpjob.srcExists
                                       THEN "returned" ELSE "raised"]
    /\ UNCHANGED <<fileVars, fsVars, rmjob, call, lsjob, wrjob>>

NextCp ==
    \/ CpStart \/ CpUkey \/ CpGetFile \/ CpPutFile \/ CpRemove \/ CpCopyObject

SpecCp == InitCp /\ [][NextCp]_vars

CrossBucket == split_path(cpjob.path1)[1] # split_path(cpjob.path2)[1]

\* C8: when a copy between two buckets has returned or raised, the temporary
\* local file of the relay does not exist.
C8_TempRemoved ==
    (cpjob.pc \in {"returned", "raised"} /\ CrossBucket) => ~cpjob.temp

\* C8 on success alone: a copy that returned has removed the file.
C8_RemovedOnReturn ==
    (cpjob.pc = "returned" /\ CrossBucket) => (~cpjob.temp /\ cpjob.copied)

\* C8, the failing case: the upload leg failed and the file is still there.
C8_FailingCase ==
    /\ cpjob.pc = "raised" /\ CrossBucket /\ cpjob.temp

\* ========================================================================
\* SpecCall: one operation at the boundary to the backend.  The backend is
\* its answers: answers[i] is what the i-th request the operation issues
\* comes back with, "ok" or the class of the exception the SDK raises.
\* ========================================================================

\* oss2.exceptions: the classes the SDK raises, all subclasses of OssError
OssClasses ==
    {"RequestError", "ClientError", "ServerError", "NoSuchBucket", "NoSuchKey",
     "AccessDenied"}
Answers == {"ok"} \cup OssClasses

Nothing == [type |-> "None"]

\* an SDK exception: RequestError and ClientError carry no error code, the
\* server errors carry the code of the response
OssError(cls) ==
    [type |-> cls,
     code |-> IF cls \in {"RequestError", "ClientError"} THEN ""
              ELSE IF cls = "ServerError" THEN "InternalError" ELSE cls,
     cause |-> Nothing]

\* an exception that is not the SDK's
PyError(cls) == [type |-> cls, cause |-> Nothing]

\* ERROR_CODE_TO_EXCEPTION.get(code); "" is None
ERROR_CODE_WithoutKey(code) ==
    IF code = "NoSuchBucket" THEN "FileNotFoundError"
    ELSE IF code = "AccessDenied" THEN "PermissionError" ELSE ""
ERROR_CODE_TO_EXCEPTION(code) ==
    IF code \in {"NoSuchBucket", "NoSuchKey"} THEN "FileNotFoundError"
    ELSE IF code = "AccessDenied" THEN "PermissionError" ELSE ""

Constructed(constructor, cause) ==
    [type |-> IF constructor # "" THEN constructor ELSE "IOError",
     cause |-> cause]

translate_boto_error(error, set_cause) ==
    IF error.type \notin OssClasses THEN error
    ELSE Constructed(ERROR_CODE_TO_EXCEPTION(error.code),
                     IF set_cause THEN error ELSE Nothing)

\* async_oss.py imports translate_oss_error from exceptions.py, which does
\* not define it: the translator as the specification describes it
translate_oss_error(error) ==
    IF error.type \notin OssClasses THEN error
    ELSE [type |-> IF error.code \in {"NoSuchBucket", "NoSuchKey"}
                   THEN "FileNotFoundError"
                   ELSE IF error.code = "AccessDenied" THEN "PermissionError"
                   ELSE "IOError",
          cause |-> error]

\* the outcome of an operation: what it returned or raised, and how many
\* requests it had sent by then
Ret(out, n) ==
    [raised |-> FALSE, exc |-> Nothing, out |-> out, requests |-> n,
     warned |-> FALSE, cached |-> FALSE]
Raise(e, n) ==
    [raised |-> TRUE, exc |-> e, out |-> "", requests |-> n,
     warned |-> FALSE, cached |-> FALSE]

\* the default of _call_oss's retry parameter; no caller passes another
retry == 3

\* the loop of OSSFileSystem._call_oss from the attempt after `count`
\* requests, giving up after request number `stop`
\* (`except oss2.exceptions.RequestError` goes on, `except OssError` breaks)
RetryableAny(answer) == answer # "ok"
Retryable(answer) == answer = "RequestError"
RECURSIVE CallLoop(_, _, _)
CallLoop(answers, count, stop) ==
    IF answers[count + 1] = "ok" THEN Ret("ok", count + 1)
    ELSE IF Retryable(answers[count + 1]) /\ count + 1 < stop
         THEN CallLoop(answers, count + 1, stop)
         ELSE Raise(translate_boto_error(OssError(answers[count + 1]), TRUE),
                    count + 1)

\* OSSFileSystem._call_oss of a method that sends a request
CallOssUntranslated(answers, sent) ==
    IF answers[sent + 1] = "ok" THEN Ret("ok", sent + 1)
    ELSE Raise(OssError(answers[sent + 1]), sent + 1)
_call_oss(answers, sent) == CallLoop(answers, sent, sent + retry)

\* AioOSSFileSystem._call_oss: one attempt
Aio_call_oss(answers, sent) ==
    IF answers[sent + 1] = "ok" THEN Ret("ok", sent + 1)
    ELSE Raise(translate_oss_error(OssError(answers[sent + 1])), sent + 1)

NoCall == [op |-> "none"]

\* what a finished operation leaves in `call`; answers are those consumed
Called(op, cls, arg, answers, res) ==
    [op |-> op, impl |-> cls, arg |-> arg,
     answers |-> SubSeq(answers, 1, res.requests), res |-> res]

AnswerSeqs == [1..retry -> Answers]

InitCall ==
    /\ FileIdle
    /\ FsIdle
    /\ JobsIdle

\* translate_boto_error(error, set_cause=...)
Translate ==
    /\ call = NoCall
    /\ \E error \in {OssError(c) : c \in OssClasses}
                     \cup {PyError("KeyError"), PyError("ValueError")},
          set_cause \in BOOLEAN :
         call' = Called("translate", "sync",
                        [error |-> error, set_cause |-> set_cause], <<>>,
                        [Ret("", 0) EXCEPT
                            !.exc = translate_boto_error(error, set_cause)])
    /\ UNCHANGED <<fileVars, fsVars, rmjob, cpjob, lsjob, wrjob>>

\* self._call_oss(method, ...) of the sync class
CallOss ==
    /\ call = NoCall
    /\ \E answers \in AnswerSeqs :
         call' = Called("_call_oss", "sync", answers, answers,
                        _call_oss(answers, 0))
    /\ UNCHANGED <<fileVars, fsVars, rmjob, cpjob, lsjob, wrjob>>

\* await self._call_oss(method, ...) of the async class
AioCallOss ==
    /\ call = NoCall
    /\ \E answers \in AnswerSeqs :
         call' = Called("_call_oss", "async", answers, answers,
                        Aio_call_oss(answers, 0))
    /\ UNCHANGED <<fileVars, fsVars, rmjob, cpjob, lsjob, wrjob>>

\* an SDK call made outside the try of _call_oss (the requests of a lazy
\* iterator, sent while the caller loops over it, and the resumable
\* transfers): its exception reaches the caller as the SDK raised it
SdkCall(answers, sent) ==
    IF answers[sent + 1] = "ok" THEN Ret("ok", sent + 1)
    ELSE Raise(OssError(answers[sent + 1]), sent + 1)

\* OSSFileSystem._bucket_exist: the probe goes through _call_oss and the
\* except clause names oss2.exceptions.OssError
BucketProbed(r) ==
    IF ~r.raised THEN Ret("True", r.requests)
    ELSE IF r.exc.type \in OssClasses THEN Ret("False", r.requests) ELSE r
_bucket_exist(bucket_name, answers) ==
    IF bucket_name = <<>> THEN Ret("False", 0)
    ELSE BucketProbed(_call_oss(answers, 0))

\* OSSFileSystem.exists of a path without an object name
SyncExists(path, answers) ==
    LET b == _bucket_exist(split_path(path)[1], answers)
    IN  IF b.raised \/ b.out = "False" THEN b ELSE Ret("True", b.requests)

\* AioOSSFileSystem._ls_buckets with no root entry in the cache
Aio_ls_buckets(anon, answers) ==
    LET r == Aio_call_oss(answers, 0)
    IN  IF anon THEN [Ret("[]", 0) EXCEPT !.warned = TRUE]
        ELSE IF r.raised
             THEN IF r.exc.type = "ClientError" THEN Ret("[]", r.requests)
                  ELSE r
             ELSE [Ret("list", r.requests) EXCEPT !.cached = TRUE]

\* AsyncFileSystem._exists over AioOSSFileSystem._info, again for a path
\* without an object name; listed: the account's buckets include the one
\* asked for
AioExists(path, anon, listed, answers) ==
    LET l == Aio_ls_buckets(anon, answers)
    IN  IF LStrip(path) = <<>> THEN Ret("True", 0)
        ELSE IF l.raised
             THEN IF l.exc.type = "FileNotFoundError"
                  THEN Ret("False", l.requests) ELSE l
             ELSE [l EXCEPT !.out = IF l.out = "list" /\ listed
                                    THEN "True" ELSE "False"]

\* OSSFileSystem.ls of the root or of a bucket
SyncLs(path, answers) ==
    LET r == SdkCall(answers, 0)
    IN  IF split_path(path)[1] # <<>> /\ r.raised
           /\ r.exc.type = "AccessDenied"
        THEN Ret("[]", r.requests)
        ELSE IF r.raised THEN r ELSE Ret("list", r.requests)

\* the transfer of get_file, once isdir and size have answered
SyncGetFile(large, answers) ==
    IF large THEN SdkCall(answers, 0) ELSE _call_oss(answers, 0)

\* open(path, "wb" | "ab") and close() with nothing written, under a
\* bucket that does not exist: close -> flush(force) -> _initiate_upload ->
\* exists, then _upload_chunk -> append_object
SyncOpenClose(answers) ==
    LET e == _bucket_exist(Bucket, answers)
    IN  IF e.raised THEN e ELSE _call_oss(answers, e.requests)

\* the same through the async class: exists is _info (head_object, then a
\* listing, each taking NotFound and PermissionDenied for "not there")
AioOpenClose(answers) ==
    LET NotThere(r) ==
            r.raised /\ r.exc.type \in {"PermissionError", "FileNotFoundError"}
        head == Aio_call_oss(answers, 0)
        listed == Aio_call_oss(answers, 1)
    IN  IF ~NotThere(head) THEN head
        ELSE IF ~NotThere(listed) THEN listed
        ELSE Aio_call_oss(answers, 2)

\* Python's truth value of maxdepth
Truthy(maxdepth) == maxdepth # None /\ maxdepth # 0

\* the argument test of find / _verify_find_arguments: does it raise?
_verify_find_arguments(maxdepth, withdirs, prefix) ==
    (withdirs \/ Truthy(maxdepth)) /\ prefix # <<>>

\* find(path, maxdepth, withdirs, prefix=...) of a bucket with a prefix
\* filter: the test, then _ls_dir(path, delimiter="", prefix=prefix)
FindPrefix(maxdepth, withdirs, prefix, answers) ==
    IF _verify_find_arguments(maxdepth, withdirs, prefix)
    THEN Raise(PyError("ValueError"), 0)
    ELSE SdkCall(answers, 0)

RootPaths == {<<>>, <<Slash>>}
BucketPaths == {Bucket, <<Slash>> \o Bucket}

\* the answers of a backend in which the bucket does not exist
MissingSeqs == [1..(2 * retry) -> {"NoSuchBucket", "RequestError"}]

\* exists(path) of the root or of a bucket
ExistsCall ==
    /\ call = NoCall
    /\ \E cls \in {"sync", "async"}, path \in RootPaths \cup BucketPaths,
          anon \in BOOLEAN, listed \in BOOLEAN, answers \in AnswerSeqs :
         /\ cls = "sync" => ~anon /\ listed
         /\ call' = Called("exists", cls,
                           [path |-> path, anon |-> anon, listed |-> listed],
                           answers,
                           IF cls = "sync" THEN SyncExists(path, answers)
                           ELSE AioExists(path, anon, listed, answers))
    /\ UNCHANGED <<fileVars, fsVars, rmjob, cpjob, lsjob, wrjob>>

\* ls(path) of the root (either class) or of a bucket (sync class); with
\* anonymous credentials the service refuses to list the buckets
LsCall ==
    /\ call = NoCall
    /\ \E cls \in {"sync", "async"}, path \in RootPaths \cup BucketPaths,
          anon \in BOOLEAN, answers \in AnswerSeqs :
         /\ cls = "async" => path \in RootPaths
         /\ (anon /\ path \in RootPaths)
              => answers[1] \in {"AccessDenied", "RequestError"}
         /\ call' = Called("ls", cls, [path |-> path, anon |-> anon],
                           answers,
                           IF cls = "sync" THEN SyncLs(path, answers)
                           ELSE Aio_ls_buckets(anon, answers))
    /\ UNCHANGED <<fileVars, fsVars, rmjob, cpjob, lsjob, wrjob>>

\* get_file(rpath, lpath) of an object, from the transfer on
GetFileCall ==
    /\ call = NoCall
    /\ \E cls \in {"sync", "async"}, large \in BOOLEAN,
          answers \in AnswerSeqs :
         call' = Called("get_file", cls, [large |-> large], answers,
                        IF cls = "sync" THEN SyncGetFile(large, answers)
                        ELSE Aio_call_oss(answers, 0))
    /\ UNCHANGED <<fileVars, fsVars, rmjob, cpjob, lsjob, wrjob>>

\* fs.open(path, mode).close() under a bucket that does not exist
OpenCloseCall ==
    /\ call = NoCall
    /\ \E cls \in {"sync", "async"}, mode \in {"wb", "ab"},
          answers \in MissingSeqs :
         call' = Called("open_close", cls, [mode |-> mode], answers,
                        IF cls = "sync" THEN SyncOpenClose(answers)
                        ELSE AioOpenClose(answers))
    /\ UNCHANGED <<fileVars, fsVars, rmjob, cpjob, lsjob, wrjob>>

\* find(bucket, maxdepth=..., withdirs=..., prefix=...) with a prefix
FindCall ==
    /\ call = NoCall
    /\ \E cls \in {"sync", "async"}, maxdepth \in {None, 0, 1, 2},
          withdirs \in BOOLEAN, prefix \in PrefixFilters \ {<<>>},
          answers \in AnswerSeqs :
         call' = Called("find", cls,
                        [maxdepth |-> maxdepth, withdirs |-> withdirs,
                         prefix |-> prefix],
                        answers,
                        FindPrefix(maxdepth, withdirs, prefix, answers))
    /\ UNCHANGED <<fileVars, fsVars, rmjob, cpjob, lsjob, wrjob>>

\* sizes of pipe_file payloads and blocks are counted in MiB
\* DEFAULT_BLOCK_SIZE = 5 * 2**20
DEFAULT_BLOCK_SIZE == 5
\* "5 GB is the limit for an OSS PUT": 5 * 2**30
PutLimit == 5120
\* the longest multipart upload followed, in parts
MaxParts == 3

\* the requests of a whole operation, in the order sent, to a backend that
\* answers each of them
Sent(methods) == Ret(methods, Len(methods))

\* OSSFileSystem.pipe_file: put_object through _call_oss, then put_object
\* again on a bucket of its own
SyncPipeFile(size) == Sent(<<"put_object", "put_object">>)

\* len(range(0, len(value), block_size))
Parts(size, block_size) == (size + block_size - 1) \div block_size

\* AioOSSFileSystem._pipe_file
SingleShot(size, block_size) == size < Min(PutLimit, 2 * block_size)
Aio_pipe_file_requests(size, block_size) ==
    IF SingleShot(size, block_size) THEN Sent(<<"put_object">>)
    ELSE Sent(<<"init_multipart_upload">>
              \o [i \in 1..Parts(size, block_size) |-> "upload_part"]
              \o <<"complete_multipart_upload">>)

PipeSizes ==
    {0, 1, 2, 3, 2 * DEFAULT_BLOCK_SIZE - 1, 2 * DEFAULT_BLOCK_SIZE,
     2 * DEFAULT_BLOCK_SIZE + 1, PutLimit - 1, PutLimit, PutLimit + 1}
PipeBlocks == {1, 2, DEFAULT_BLOCK_SIZE, PutLimit}

\* pipe_file(path, value, block_size=...) of a payload of `size`
PipeFileCall ==
    /\ call = NoCall
    /\ \E cls \in {"sync", "async"}, size \in PipeSizes,
          block_size \in PipeBlocks :
         /\ Parts(size, block_size) <= MaxParts
         /\ call' = Called("pipe_file", cls,
                           [size |-> size, block_size |-> block_size],
                           [i \in 1..(MaxParts + 2) |-> "ok"],
                           IF cls = "sync" THEN SyncPipeFile(size)
                           ELSE Aio_pipe_file_requests(size, block_size))
    /\ UNCHANGED <<fileVars, fsVars, rmjob, cpjob, lsjob, wrjob>>

\* the pieces paths are spelled with: an endpoint host, the heads a path
\* can start with and what can follow them
Endpoint == Oss \o <<"-", "c", "n", ".">> \o AliyuncsCom
Heads == {OssScheme, Http \o Endpoint, Https \o Endpoint, Http}
TailPieces == {<<Slash>>, Bucket, <<Slash>> \o Endpoint \o <<Slash>>}
MaxHeads == 2
MaxTail == 4

SeqsUpTo(S, n) == UNION {[1..k -> S] : k \in 0..n}
RECURSIVE Flatten(_)
Flatten(pieces) ==
    IF pieces = <<>> THEN <<>> ELSE Head(pieces) \o Flatten(Tail(pieces))
PathInputs ==
    {Flatten(h) \o Flatten(t) :
        h \in SeqsUpTo(Heads, MaxHeads), t \in SeqsUpTo(TailPieces, MaxTail)}

\* _strip_protocol(path) and split_path(path), and both again on the result
StripProtocolCall ==
    /\ call = NoCall
    /\ \E path \in PathInputs :
         call' = Called("_strip_protocol", "base", path, <<>>,
                        Ret([once |-> _strip_protocol(path),
                             twice |-> _strip_protocol(_strip_protocol(path)),
                             split |-> split_path(path),
                             split_once |-> split_path(_strip_protocol(path))],
                            0))
    /\ UNCHANGED <<fileVars, fsVars, rmjob, cpjob, lsjob, wrjob>>

\* AioOSSFileSystem._pipe_file request by request.  A payload is a sequence
\* of tokens, lengths count tokens; every request is answered "ok" or with
\* an SDK error, and a request answered with an error changed nothing at
\* the backend.
MaxValue == 5
MaxBlock == 2

Request(method, part_number, value_block, parts) ==
    [method |-> method, part_number |-> part_number,
     value_block |-> value_block, parts |-> parts]

\* value[off : off + block_size]
Block(value, off, block_size) ==
    SubSeq(value, off + 1, Min(off + block_size, Len(value)))

\* part_number = i + 1, i the index enumerate() counts from 0
PartNumberFromZero(i) == i
PartNumber(i) == i + 1

\* PartInfo(part_number, etag, size=len(value_block), part_crc=...)
PartInfo(part_number, value_block) ==
    [part_number |-> part_number, size |-> Len(value_block)]

\* no try/except stands around the requests: an error leaves the method
\* with what was sent so far
WithAbort(sent) == Append(sent, Request("abort_multipart_upload", 0, <<>>, <<>>))
Unwound(sent) == sent

\* one awaited self._call_oss(method, ...): the requests sent so far with
\* this one, and its outcome
Awaited(sent, request, answers) ==
    [sent |-> Append(sent, request),
     res |-> Aio_call_oss(answers, Len(sent))]

\* the loop over enumerate(range(0, len(value), block_size)) from index i,
\* then the completion call
RECURSIVE UploadParts(_, _, _, _, _, _)
UploadParts(value, block_size, answers, i, sent, parts) ==
    IF i * block_size < Len(value)
    THEN LET value_block == Block(value, i * block_size, block_size)
             a == Awaited(sent,
                          Request("upload_part", PartNumber(i), value_block, <<>>),
                          answers)
         IN  IF a.res.raised
             THEN [a.res EXCEPT !.out = Unwound(a.sent)]
             ELSE UploadParts(value, block_size, answers, i + 1, a.sent,
                              Append(parts,
                                     PartInfo(PartNumber(i), value_block)))
    ELSE LET a == Awaited(sent,
                          Request("complete_multipart_upload", 0, <<>>, parts),
                          answers)
         IN  IF a.res.raised
             THEN [a.res EXCEPT !.out = Unwound(a.sent)]
             ELSE [a.res EXCEPT !.out = a.sent]

\* _pipe_file(path, value, block_size=...): the requests it sent, in `out`
Aio_pipe_file_run(value, block_size, answers) ==
    IF SingleShot(Len(value), block_size)
    THEN LET a == Awaited(<<>>, Request("put_object", 0, value, <<>>), answers)
         IN  [a.res EXCEPT !.out = a.sent]
    ELSE LET a == Awaited(<<>>,
                          Request("init_multipart_upload", 0, <<>>, <<>>),
                          answers)
         IN  IF a.res.raised
             THEN [a.res EXCEPT !.out = a.sent]
             ELSE UploadParts(value, block_size, answers, 0, a.sent, <<>>)

\* the backend after requests `sent`, the last of them answered `last`:
\* the object at the key (it had content `old`) and whether the upload
\* session the call initiated is open.  A completion assembles the blocks
\* of the parts it lists, in the order it lists them.
Answered(sent, i, failed) == i < Len(sent) \/ ~failed
UploadedBlock(sent, failed, part_number) ==
    LET at == {i \in 1..Len(sent) :
                  /\ sent[i].method = "upload_part"
                  /\ sent[i].part_number = part_number
                  /\ Answered(sent, i, failed)}
    IN  IF at = {} THEN <<None>>
        ELSE sent[CHOOSE i \in at : \A j \in at : j <= i].value_block
Assembled(sent, failed, parts) ==
    Flatten([k \in 1..Len(parts) |->
                UploadedBlock(sent, failed, parts[k].part_number)])
Completions(sent, failed) ==
    {i \in 1..Len(sent) :
        sent[i].method = "complete_multipart_upload" /\ Answered(sent, i, failed)}
BackendObject(sent, failed, old) ==
    IF \E i \in 1..Len(sent) :
           sent[i].method = "put_object" /\ Answered(sent, i, failed)
    THEN sent[1].value_block
    ELSE IF Completions(sent, failed) # {}
         THEN Assembled(sent, failed,
                        sent[CHOOSE i \in Completions(sent, failed) : TRUE].parts)
         ELSE old
SessionOpen(sent, failed) ==
    /\ \E i \in 1..Len(sent) :
           sent[i].method = "init_multipart_upload" /\ Answered(sent, i, failed)
    /\ Completions(sent, failed) = {}
    /\ \A i \in 1..Len(sent) :
           ~(sent[i].method = "abort_multipart_upload" /\ Answered(sent, i, failed))

\* answers that fail request number f (none when f = 0) with error e
FailingAt(f, e) == [i \in 1..(MaxValue + 2) |-> IF i = f THEN e ELSE "ok"]

\* fs.pipe_file(path, value, block_size=block_size) on the async class, the
\* key holding `old` before
AioPipeFileRun ==
    /\ call = NoCall
    /\ \E size \in 0..MaxValue, block_size \in 1..MaxBlock,
          f \in 0..(MaxValue + 2),
          e \in {"RequestError", "ServerError", "AccessDenied"} :
         LET r == Aio_pipe_file_run(Fresh(0, size), block_size, FailingAt(f, e))
         IN  call' = Called("pipe_file_run", "async",
                            [value |-> Fresh(0, size),
                             block_size |-> block_size, old |-> Old(1)],
                            FailingAt(f, e),
                            [r EXCEPT !.out =
                                [sent |-> r.out,
                                 object |-> BackendObject(r.out, r.raised,
                                                          Old(1)),
                                 session |-> SessionOpen(r.out, r.raised)]])
    /\ UNCHANGED <<fileVars, fsVars, rmjob, cpjob, lsjob, wrjob>>

\* BaseOSSFileSystem._get_batch_delete_key_list(pathlist): the buckets and
\* the keys of the paths, the two refusals, then the parent of every path
\* is invalidated
BucketsOf(pathlist) == {split_path(pathlist[i])[1] : i \in 1..Len(pathlist)}
KeyList(pathlist) == [i \in 1..Len(pathlist) |-> split_path(pathlist[i])[2]]
BatchRefusedOnBuckets(pathlist) == Cardinality(BucketsOf(pathlist)) > 1
BatchRefused(pathlist) ==
    \/ Cardinality(BucketsOf(pathlist)) > 1
    \/ Len(pathlist) > MaxKeysPerCall
InvalidateParents(cache, pathlist) ==
    Drop(cache,
         UNION {DOMAIN cache \ DOMAIN invalidate_cache(cache, _parent(pathlist[i])) :
                   i \in 1..Len(pathlist)})
_get_batch_delete_key_list(cache, pathlist) ==
    IF BatchRefused(pathlist)
    THEN [raised |-> "ValueError", key_list |-> <<>>, cache |-> cache]
    ELSE [raised |-> "", key_list |-> KeyList(pathlist),
          cache |-> InvalidateParents(cache, pathlist)]

\* AioOSSFileSystem._bulk_delete(pathlist): nothing for an empty list, else
\* the key list and one batch_delete_objects request
Aio_bulk_delete_run(cache, pathlist, answers) ==
    IF pathlist = <<>> THEN Ret([cache |-> cache], 0)
    ELSE LET g == _get_batch_delete_key_list(cache, pathlist)
         IN  IF g.raised # ""
             THEN [Raise(PyError(g.raised), 0) EXCEPT !.out = [cache |-> g.cache]]
             ELSE [Aio_call_oss(answers, 0) EXCEPT !.out = [cache |-> g.cache]]

\* path lists: short ones of one bucket and of two, and long ones around
\* the limit whose path number `other` (none for 0) is of another bucket
LongList(n, other) ==
    [i \in 1..n |->
        IF i = other THEN Join(OtherBucket, KeyP3)
        ELSE IF i % 2 = 1 THEN PathOf(KeyP3) ELSE PathOf(KeyP3S)]
BulkLists ==
    {<<>>, <<PathOf(KeyP3)>>, <<Join(OtherBucket, KeyP3)>>}
      \cup {LongList(n, other) :
               n \in {2, 3, MaxKeysPerCall, MaxKeysPerCall + 1},
               other \in {0, 1, 2}}
\* caches with listings of the bucket, of the directory and of the other
\* bucket
BulkCaches ==
    UNION {[S -> {{File(PathOf(KeyP3S))}}] :
              S \in SUBSET {Bucket, PathOf(KeyP3), OtherBucket}}

\* await fs._bulk_delete(pathlist) with `cache` as the directory cache
BulkDeleteCall ==
    /\ call = NoCall
    /\ \E pathlist \in BulkLists, cache \in BulkCaches,
          answers \in {<<"ok">>, <<"ServerError">>} :
         call' = Called("bulk_delete", "async",
                        [n |-> Len(pathlist), buckets |-> BucketsOf(pathlist),
                         cache |-> cache],
                        answers, Aio_bulk_delete_run(cache, pathlist, answers))
    /\ UNCHANGED <<fileVars, fsVars, rmjob, cpjob, lsjob, wrjob>>

\* self._call_oss(method, ..., retry=r): with no turn of the loop the final
\* raise finds `error` unbound
MaxRetry == 4
CallOssWithRetry(answers, r) ==
    IF r = 0 THEN Raise(PyError("UnboundLocalError"), 0)
    ELSE CallLoop(answers, 0, r)

CallOssRetry ==
    /\ call = NoCall
    /\ \E r \in 0..MaxRetry :
         \E answers \in [1..r -> Answers] :
            call' = Called("_call_oss_retry", "sync",
                           [answers |-> answers, retry |-> r], answers,
                           CallOssWithRetry(answers, r))
    /\ UNCHANGED <<fileVars, fsVars, rmjob, cpjob, lsjob, wrjob>>

\* self.invalidate_cache(path) on a cache that holds listings of the path,
\* of directories above, below and beside it, of another bucket and of the
\* root; a listing is marked by its key
InvKeys == {<<>>, Bucket, OtherBucket, PathOf(KeyP3), PathOf(KeyP3S),
            Join(Bucket, <<"q">>), Join(OtherBucket, KeyP3)}
InvCaches == {[k \in S |-> {Directory(k)}] : S \in SUBSET InvKeys}
InvPaths == {PathOf(KeyP3), <<Slash>> \o PathOf(KeyP3),
             PathOf(KeyP3) \o <<Slash>>, OssScheme \o PathOf(KeyP3),
             Bucket, PathOf(KeyP3S), Join(Bucket, <<"q">>), OtherBucket}

InvalidateCall ==
    /\ call = NoCall
    /\ \E cache \in InvCaches, path \in InvPaths :
         call' = Called("invalidate_cache", "sync",
                        [cache |-> cache, path |-> path], <<>>,
                        Ret(invalidate_cache(cache, path), 0))
    /\ UNCHANGED <<fileVars, fsVars, rmjob, cpjob, lsjob, wrjob>>

NextCall ==
    \/ Translate \/ CallOss \/ AioCallOss
    \/ ExistsCall \/ LsCall \/ GetFileCall \/ OpenCloseCall \/ FindCall
    \/ PipeFileCall \/ StripProtocolCall \/ AioPipeFileRun
    \/ BulkDeleteCall \/ CallOssRetry \/ InvalidateCall

SpecCall == InitCall /\ [][NextCall]_vars

\* ------------------------------------------------------------------------
\* Properties of the backend boundary
\* ------------------------------------------------------------------------

Taxonomy == {"FileNotFoundError", "PermissionError", "ValueError", "IOError"}

\* the attempts of a _call_oss: all but the last failed transiently
Transients(c) ==
    \A i \in 1..(c.res.requests - 1) : c.arg[i] = "RequestError"

\* C14: in sync mode and in async mode a call that fails with a transient
\* request error is attempted again, up to 3 attempts in total; when every
\* attempt fails transiently the caller gets a generic I/O error, and when
\* an attempt succeeds its result is returned with no further attempt.
C14_TransientRetried ==
    call.op = "_call_oss"
      => /\ call.res.requests \in 1..retry
         /\ Transients(call)
         /\ call.arg[call.res.requests] = "RequestError"
              => /\ call.res.requests = retry
                 /\ call.res.raised /\ call.res.exc.type = "IOError"
         /\ call.arg[call.res.requests] = "ok" => ~call.res.raised

\* C14 holds of the sync class.
C14_SyncRetried ==
    (call.op = "_call_oss" /\ call.impl = "sync") => C14_TransientRetried

\* C14, the failing case: the async class gave up after one transient
\* failure although the next attempt would have succeeded.
C14_FailingCase ==
    /\ call.op = "_call_oss" /\ call.impl = "async"
    /\ call.arg[1] = "RequestError" /\ call.arg[2] = "ok"
    /\ call.res.requests = 1 /\ call.res.raised

\* C15: the translator maps the codes NoSuchBucket and NoSuchKey to
\* NotFound, AccessDenied to PermissionDenied and every other backend error
\* to a generic I/O error; the error it returns carries the backend error as
\* its cause (set_cause is left at its default, as every caller leaves it),
\* and an input that is not a backend error comes back unchanged.
C15_TranslatorMapping ==
    call.op = "translate"
      => IF call.arg.error.type \in OssClasses
         THEN /\ call.arg.error.code \in {"NoSuchBucket", "NoSuchKey"}
                   => call.res.exc.type = "FileNotFoundError"
              /\ call.arg.error.code = "AccessDenied"
                   => call.res.exc.type = "PermissionError"
              /\ call.arg.error.code \notin
                     {"NoSuchBucket", "NoSuchKey", "AccessDenied"}
                   => call.res.exc.type = "IOError"
              /\ call.arg.set_cause => call.res.exc.cause = call.arg.error
         ELSE call.res.exc = call.arg.error

\* C15 witness: a NoSuchKey error came back as NotFound with its cause.
C15_Witness ==
    /\ call.op = "translate" /\ call.arg.set_cause
    /\ call.arg.error = OssError("NoSuchKey")
    /\ call.res.exc.type = "FileNotFoundError"
    /\ call.res.exc.cause = OssError("NoSuchKey")

\* C15, second case: an exception of another kind came back as it went in.
C15_WitnessForeign ==
    /\ call.op = "translate" /\ call.arg.error = PyError("KeyError")
    /\ call.res.exc = PyError("KeyError")

\* C11: exists('') and exists('/') return true, in the sync filesystem and
\* in the async filesystem, whatever the backend holds.
C11_RootExists ==
    (call.op = "exists" /\ call.arg.path \in RootPaths)
      => (~call.res.raised /\ call.res.out = "True")

\* C11 holds of the async class, whose _info answers the root itself.
C11_AsyncRootExists ==
    (call.op = "exists" /\ call.impl = "async") => C11_RootExists

\* C11, the failing case: the sync exists('') answered False without a
\* request.
C11_FailingCase ==
    /\ call.op = "exists" /\ call.impl = "sync" /\ call.arg.path = <<>>
    /\ ~call.res.raised /\ call.res.out = "False" /\ call.res.requests = 0

\* the existence probe of a bucket-only path did not succeed
ProbeFailed ==
    /\ call.op = "exists" /\ call.impl = "sync"
    /\ call.arg.path \in BucketPaths
    /\ call.answers[call.res.requests] # "ok"

\* C12: exists on a container-only path returns false, without raising,
\* whenever the container existence probe fails with a backend error
\* (missing container, access denied, or a request failure that survives
\* the retries).
C12_ProbeFailureIsFalse ==
    ProbeFailed => (~call.res.raised /\ call.res.out = "False")

\* C12, the failing case: the probe of a missing bucket came out as NotFound.
C12_FailingCase ==
    /\ ProbeFailed /\ call.answers = <<"NoSuchBucket">>
    /\ call.res.raised /\ call.res.exc.type = "FileNotFoundError"

\* the filesystem operations of this specification
FsOps == {"exists", "ls", "get_file", "open_close", "find", "_call_oss"}

\* C13: every error a filesystem operation raises because of a backend
\* failure is one of the taxonomy kinds (NotFound, PermissionDenied,
\* InvalidArgument, generic I/O error); no SDK exception reaches the caller.
C13_OnlyTaxonomy ==
    (call.op \in FsOps /\ call.res.raised) => call.res.exc.type \in Taxonomy

\* C13 holds of what is raised by _call_oss itself.
C13_ThroughCallOss == call.op = "_call_oss" => C13_OnlyTaxonomy

\* C13, the failing case: the resumable download of get_file failed and the
\* SDK's exception came out of the sync get_file.
C13_FailingCase ==
    /\ call.op = "get_file" /\ call.impl = "sync" /\ call.arg.large
    /\ call.res.raised /\ call.res.exc = OssError("NoSuchKey")

\* the close ended on an answer of the service, that the bucket is missing
EndedOnMissing ==
    /\ call.op = "open_close"
    /\ call.answers[call.res.requests] = "NoSuchBucket"

C17_WitnessAppend ==
    /\ call.op = "open_close" /\ call.impl = "sync" /\ call.arg.mode = "ab"
    /\ call.answers = <<"NoSuchBucket">>
    /\ call.res.raised /\ call.res.exc.type = "FileNotFoundError"

\* The same of an OSSFile over the async class, as far as the translator
\* the specification describes goes: exists answers False after two
\* requests and the append request raises NotFound.
C17_AioMissingBucket ==
    (EndedOnMissing /\ call.impl = "async")
      => /\ call.res.raised /\ call.res.exc.type = "FileNotFoundError"
         /\ call.res.requests = 3

\* C19: listing the root with anonymous credentials returns an empty list
\* and logs a warning instead of raising, in the sync filesystem and in the
\* async filesystem, and stores no root entry in the directory cache.
C19_AnonymousRootListing ==
    (call.op = "ls" /\ call.arg.path \in RootPaths /\ call.arg.anon)
      => /\ ~call.res.raised /\ call.res.out = "[]"
         /\ call.res.warned /\ ~call.res.cached

\* C19 holds of the async class.
C19_AsyncAnonymous ==
    (call.op = "ls" /\ call.impl = "async") => C19_AnonymousRootListing

\* C19, the failing case: the sync ls('/') sent the request and the
\* service's refusal came out of it.
C19_FailingCase ==
    /\ call.op = "ls" /\ call.impl = "sync" /\ call.arg.path = <<Slash>>
    /\ call.arg.anon /\ call.res.requests = 1
    /\ call.res.raised /\ call.res.exc = OssError("AccessDenied")

\* C20: find called with a non-empty prefix together with withdirs, or
\* together with any supplied maxdepth value, fails with a ValueError
\* before any backend request is issued.
C20_PrefixExcludesDepth ==
    (call.op = "find" /\ call.arg.prefix # <<>>
        /\ (call.arg.withdirs \/ call.arg.maxdepth # None))
      => /\ call.res.raised /\ call.res.exc.type = "ValueError"
         /\ call.res.requests = 0

\* C20 holds for withdirs and for every maxdepth other than 0.
C20_NonZeroDepth ==
    (call.op = "find" /\ call.arg.maxdepth # 0) => C20_PrefixExcludesDepth

\* C20, the failing case: maxdepth=0 with a prefix went on to the listing.
C20_FailingCase ==
    /\ call.op = "find" /\ call.arg.prefix # <<>> /\ call.arg.maxdepth = 0
    /\ ~call.arg.withdirs /\ call.res.requests = 1

\* the requests of one kind among those an operation sent
Count(methods, kinds) == Cardinality({i \in 1..Len(methods) : methods[i] \in kinds})
Multipart == {"init_multipart_upload", "upload_part", "complete_multipart_upload"}

\* C21: a pipe_file whose payload is below the single-shot threshold sends
\* exactly one put request and no multipart request, in the sync and in the
\* async filesystem.
C21_SmallPipeOnePut ==
    (call.op = "pipe_file"
       /\ SingleShot(call.arg.size, call.arg.block_size))
      => /\ Count(call.res.out, {"put_object"}) = 1
         /\ Count(call.res.out, Multipart) = 0

\* the async class alone does as C21 says
C21_AsyncOnePut == (call.op = "pipe_file" /\ call.impl = "async") => C21_SmallPipeOnePut

\* a one-MiB payload through the sync class
C21_FailingCase ==
    /\ call.op = "pipe_file" /\ call.impl = "sync"
    /\ call.arg.size = 1 /\ call.arg.block_size = DEFAULT_BLOCK_SIZE
    /\ Count(call.res.out, {"put_object"}) = 2

\* above the threshold the async class does go through the multipart calls
C21_LargeIsMultipart ==
    (call.op = "pipe_file" /\ call.impl = "async"
       /\ ~SingleShot(call.arg.size, call.arg.block_size))
      => /\ Count(call.res.out, {"put_object"}) = 0
         /\ Count(call.res.out, {"upload_part"})
              = Parts(call.arg.size, call.arg.block_size)

\* C23: for every path, bare, oss:// prefixed or an endpoint URL,
\* split_path of the normalized path equals split_path of the path, and
\* normalizing twice equals normalizing once.
C23_NormalizeIdempotent ==
    call.op = "_strip_protocol"
      => /\ call.res.out.split_once = call.res.out.split
         /\ call.res.out.twice = call.res.out.once

\* an oss:// path of a bucket and a key that normalization changed
C23_Witness ==
    /\ call.op = "_strip_protocol"
    /\ call.arg = OssScheme \o Bucket \o <<Slash>> \o Bucket
    /\ call.res.out.once = <<Slash>> \o Bucket \o <<Slash>> \o Bucket
    /\ call.res.out.twice = call.res.out.once
    /\ call.res.out.split = <<Bucket, Bucket>>

\* an endpoint URL that normalization changed
C23_WitnessUrl ==
    /\ call.op = "_strip_protocol"
    /\ StartsWith(call.arg, Https \o Endpoint)
    /\ call.res.out.once # call.arg
    /\ call.res.out.split_once = call.res.out.split
    /\ call.res.out.split[2] # <<>>

\* "/container/key": a bucket name has none of "/", ":" and "."
BucketChars == {"b", "p", "3", "s", "c"}
IsContainerKey(r) ==
    /\ Len(r) >= 4 /\ r[1] = Slash
    /\ HasSlash(SubSeq(r, 2, Len(r)))
    /\ FirstSlash(SubSeq(r, 2, Len(r))) \in 2..(Len(r) - 2)
    /\ \A i \in 2..FirstSlash(SubSeq(r, 2, Len(r))) : r[i] \in BucketChars
\* what stands before "/container/key" in its spellings: nothing, "oss:/",
\* "http://<endpoint>" or "https://<endpoint>"
SpellingPrefixes ==
    {<<>>, SubSeq(OssScheme, 1, 5), Http \o Endpoint, Https \o Endpoint}
BeginsWithSlash(path) == Len(path) > 0 /\ path[1] = Slash

\* C24: the normalized path begins with "/" for every input path, and the
\* bare, the scheme-prefixed and the endpoint-URL spelling of one container
\* and key all normalize to the same "/container/key".
C24_NormalizedForm ==
    call.op = "_strip_protocol"
      => /\ BeginsWithSlash(call.res.out.once)
         /\ \A pre \in SpellingPrefixes :
                (StartsWith(call.arg, pre)
                   /\ IsContainerKey(TailOf(call.arg, pre)))
                  => call.res.out.once = TailOf(call.arg, pre)

\* the same of the spellings of a container and key alone
C24_SpellingsAgree ==
    call.op = "_strip_protocol"
      => \A pre \in SpellingPrefixes :
            (StartsWith(call.arg, pre) /\ IsContainerKey(TailOf(call.arg, pre)))
              => call.res.out.once = TailOf(call.arg, pre)

\* the key holds "aliyuncs.com/" somewhere
HoldsHostEnd(path) ==
    \E j \in 1..Len(path) :
        /\ j > Len(AliyuncsCom)
        /\ SubSeq(path, j - Len(AliyuncsCom), j - 1) = AliyuncsCom
        /\ path[j] = Slash
\* the spellings agree for a key that does not
C24_PlainKeysAgree ==
    call.op = "_strip_protocol"
      => \A pre \in SpellingPrefixes :
            (StartsWith(call.arg, pre) /\ IsContainerKey(TailOf(call.arg, pre))
               /\ ~HoldsHostEnd(TailOf(call.arg, pre)))
              => call.res.out.once = TailOf(call.arg, pre)

\* the URL of key "oss-cn.aliyuncs.com/b" in container b loses the
\* container and the head of the key
C24_FailingCase ==
    /\ call.op = "_strip_protocol"
    /\ call.arg = Http \o Endpoint \o <<Slash>> \o Bucket \o <<Slash>>
                      \o Endpoint \o <<Slash>> \o Bucket
    /\ call.res.out.once = <<Slash>> \o Bucket

\* the requests of a pipe_file_run with method m, as positions of `sent`
SentAs(m) ==
    {i \in 1..Len(call.res.out.sent) : call.res.out.sent[i].method = m}
MultipartRun ==
    /\ call.op = "pipe_file_run"
    /\ ~SingleShot(Len(call.arg.value), call.arg.block_size)

\* C32: a whole-buffer write at or above the threshold that succeeds
\* uploads parts numbered 1, 2, ..., n in increasing order, each of at most
\* block_size bytes, whose concatenation in number order is the payload,
\* and issues exactly one completion call, after the last part upload,
\* that lists the n parts in number order.
C32_PartsInOrder ==
    (MultipartRun /\ ~call.res.raised) =>
        LET sent == call.res.out.sent
            n == Len(sent) - 2
        IN  /\ n >= 1
            /\ SentAs("upload_part") = 2..(n + 1)
            /\ \A i \in 1..n :
                /\ sent[i + 1].part_number = i
                /\ Len(sent[i + 1].value_block) <= call.arg.block_size
            /\ Flatten([i \in 1..n |-> sent[i + 1].value_block])
                 = call.arg.value
            /\ SentAs("complete_multipart_upload") = {n + 2}
            /\ Len(sent[n + 2].parts) = n
            /\ \A i \in 1..n :
                /\ sent[n + 2].parts[i].part_number = i
                /\ sent[n + 2].parts[i].size = Len(sent[i + 1].value_block)
            /\ call.res.out.object = call.arg.value

\* a payload of five in blocks of two: three parts, the last one short
C32_Witness ==
    /\ MultipartRun /\ ~call.res.raised
    /\ Len(call.arg.value) = 5 /\ call.arg.block_size = 2
    /\ Len(call.res.out.sent) = 5
    /\ Len(call.res.out.sent[4].value_block) = 1
    /\ ~call.res.out.session

\* C33: when a part upload or the completion call of a multipart
\* whole-buffer write fails, the operation raises, sends neither an abort
\* request nor a completion request afterwards, the upload session stays
\* open at the backend and the object keeps its previous content.
C33_FailureLeavesSession ==
    (MultipartRun /\ call.res.requests >= 2
       /\ call.answers[call.res.requests] # "ok") =>
        /\ call.res.raised
        /\ Len(call.res.out.sent) = call.res.requests
        /\ SentAs("abort_multipart_upload") = {}
        /\ SentAs("complete_multipart_upload") \subseteq {call.res.requests}
        /\ call.res.out.session
        /\ call.res.out.object = call.arg.old

\* the second part upload failed
C33_Witness ==
    /\ MultipartRun /\ call.res.raised
    /\ call.res.requests = 3
    /\ call.res.out.sent[3].method = "upload_part"
    /\ call.res.out.session

\* the completion call failed
C33_WitnessCompletion ==
    /\ MultipartRun /\ call.res.raised
    /\ call.res.out.sent[call.res.requests].method = "complete_multipart_upload"
    /\ call.res.exc.type = "PermissionError"
    /\ call.res.out.session

\* C34: a bulk-delete request whose paths span more than one container, or
\* that holds more than 1000 paths, is rejected with a ValueError before
\* any backend request is sent and without removing a directory-cache
\* entry.
C34_BulkDeleteRejected ==
    (call.op = "bulk_delete"
       /\ (Cardinality(call.arg.buckets) > 1 \/ call.arg.n > MaxKeysPerCall)) =>
        /\ call.res.raised
        /\ call.res.exc.type = "ValueError"
        /\ call.res.requests = 0
        /\ call.res.out.cache = call.arg.cache

\* one path more than the limit, all of one bucket, every listing cached
C34_Witness ==
    /\ call.op = "bulk_delete"
    /\ call.arg.n = MaxKeysPerCall + 1 /\ call.arg.buckets = {Bucket}
    /\ DOMAIN call.arg.cache = {Bucket, PathOf(KeyP3), OtherBucket}
    /\ call.res.raised /\ call.res.requests = 0

\* two paths of two buckets
C34_WitnessBuckets ==
    /\ call.op = "bulk_delete"
    /\ call.arg.n = 2 /\ call.arg.buckets = {Bucket, OtherBucket}
    /\ call.arg.cache # EmptyCache
    /\ call.res.raised /\ call.res.out.cache = call.arg.cache

\* a list of exactly the limit is sent, and its parents' listings dropped
C34_WitnessAccepted ==
    /\ call.op = "bulk_delete"
    /\ call.arg.n = MaxKeysPerCall /\ call.arg.buckets = {Bucket}
    /\ ~call.res.raised /\ call.res.requests = 1
    /\ DOMAIN call.arg.cache = {Bucket, PathOf(KeyP3), OtherBucket}
    /\ DOMAIN call.res.out.cache = {OtherBucket}

\* C37: in the sync filesystem a backend call that fails with a
\* non-transient backend error is attempted exactly once and its translated
\* error is raised; for every retry count of at least 1, _call_oss either
\* returns the result of a successful attempt or raises a translated error.
C37_NonTransientOnce ==
    (call.op = "_call_oss_retry" /\ call.arg.retry >= 1) =>
        LET n == call.res.requests
        IN  /\ n \in 1..call.arg.retry
            /\ IF call.answers[n] = "ok"
               THEN ~call.res.raised /\ call.res.out = "ok"
               ELSE /\ call.res.raised
                    /\ call.res.exc
                         = translate_boto_error(OssError(call.answers[n]), TRUE)
                    /\ call.res.exc.type \in Taxonomy
            /\ call.answers[n] \notin {"ok", "RequestError"} =>
                \A i \in 1..(n - 1) : call.answers[i] = "RequestError"
            /\ call.answers[1] \notin {"ok", "RequestError"} => n = 1

\* a server error at the first of four attempts allowed: one attempt
C37_Witness ==
    /\ call.op = "_call_oss_retry" /\ call.arg.retry = MaxRetry
    /\ call.arg.answers[1] = "AccessDenied" /\ call.arg.answers[2] = "ok"
    /\ call.res.requests = 1
    /\ call.res.raised /\ call.res.exc.type = "PermissionError"

\* a retry count of 0: no attempt, and what is raised is no translated error
C37_WitnessNoTurn ==
    /\ call.op = "_call_oss_retry" /\ call.arg.retry = 0
    /\ call.res.requests = 0
    /\ call.res.raised /\ call.res.exc.type \notin Taxonomy

\* a cache key that is the path, normalized, or a directory above it
AtOrAbove(k, path) ==
    /\ k # <<>>
    /\ \/ k = CacheKey(path)
       \/ StartsWith(CacheKey(path), k \o <<Slash>>)

\* C40: invalidate_cache(P) leaves unchanged every directory-cache entry
\* whose key is neither P nor an ancestor of P: the entries of sibling
\* directories, of descendants of P, of other buckets, and the root entry
\* that holds the bucket list; and it adds no entry.
C40_InvalidateFrame ==
    call.op = "invalidate_cache" =>
        /\ \A k \in DOMAIN call.arg.cache :
              ~AtOrAbove(k, call.arg.path) =>
                  /\ k \in DOMAIN call.res.out
                  /\ call.res.out[k] = call.arg.cache[k]
        /\ DOMAIN call.res.out \subseteq DOMAIN call.arg.cache

\* every listing cached, b/p3 invalidated: the root, the other bucket, the
\* sibling b/q and the descendant b/p3/s are left, b/p3 and b are gone
C40_Witness ==
    /\ call.op = "invalidate_cache"
    /\ call.arg.path = PathOf(KeyP3)
    /\ DOMAIN call.arg.cache = InvKeys
    /\ DOMAIN call.res.out = InvKeys \ {PathOf(KeyP3), Bucket}

\* the same for the spelling with a trailing slash
C40_WitnessTrailing ==
    /\ call.op = "invalidate_cache"
    /\ call.arg.path = PathOf(KeyP3) \o <<Slash>>
    /\ DOMAIN call.arg.cache = InvKeys
    /\ DOMAIN call.res.out = InvKeys \ {PathOf(KeyP3), Bucket}

\* ---------------------------------------------------------------------
\* SpecLs: concurrent listings of one directory against a changing bucket.
\* Several callers run _ls_dir on the bucket root at once (threads on the
\* synchronous class, coroutines on the asynchronous one); the backend
\* answers a listing page by page, other clients add and remove keys, and
\* the cache is invalidated at any time.
\* ---------------------------------------------------------------------

MaxLsKeys == 2
MaxListings == 3
max_keys == 1
Listers == {1, 2}
LsKeys == 1..MaxLsKeys

NoListing == [status |-> "idle"]
IdleLister == [pc |-> "idle", files |-> <<>>, marker |-> 0, id |-> 0,
               done |-> None]
\* a mutation made through this instance (SpecMut): where it stands, which
\* method it is and the key it puts or deletes; overlap is a ghost field,
\* whether a listing was in flight at some moment of the mutation
NoMut == [pc |-> "idle", kind |-> "none", key |-> 0, overlap |-> FALSE]
MutRuns(j) == j.mut.pc \in {"run", "answered"}

\* One request of the object iterator: the keys after `marker`, in key
\* order, at most max_keys of them, and whether more remain.
After(bucket, marker) == {k \in bucket : k > marker}
Page(bucket, marker) ==
    {k \in After(bucket, marker) :
        Cardinality({j \in After(bucket, marker) : j < k}) < max_keys}
IsTruncated(bucket, marker) == Cardinality(After(bucket, marker)) > max_keys
InKeyOrder(S) ==
    CHOOSE s \in [1..Cardinality(S) -> S] :
        \A i, j \in 1..Cardinality(S) : i < j => s[i] < s[j]
LastKey(S, marker) == IF S = {} THEN marker ELSE CHOOSE k \in S : \A j \in S : j <= k

InitLs ==
    /\ FileIdle
    /\ FsIdle
    /\ rmjob = [status |-> "idle"]
    /\ cpjob = [pc |-> "idle"]
    /\ call = [op |-> "none"]
    /\ wrjob = [status |-> "idle"]
    /\ \E i \in {"sync", "async"}, b \in SUBSET LsKeys :
        lsjob = [status |-> "run", impl |-> i, bucket |-> b,
                 cache |-> EmptyCache, n |-> 0,
                 proc |-> [p \in Listers |-> IdleLister],
                 mut |-> NoMut]

\* `norm_path in self.dircache and not refresh and not prefix and delimiter`
\* (asynchronous class), `norm_path not in self.dircache` (synchronous)
LsCacheHit(j, refresh) ==
    /\ Bucket \in DOMAIN j.cache
    /\ (j.impl = "sync" \/ ~refresh)

\* _ls_dir from its call to its first request
LsDirBegin(p) ==
    /\ lsjob.status = "run"
    /\ lsjob.proc[p].pc = "idle"
    /\ \E refresh \in BOOLEAN :
        IF LsCacheHit(lsjob, refresh)
        THEN lsjob' = [lsjob EXCEPT !.proc[p].pc =
                          IF lsjob.impl = "sync" THEN "copy" ELSE "idle"]
        ELSE /\ lsjob.n < MaxListings
             /\ lsjob' = [lsjob EXCEPT !.n = @ + 1,
                              !.proc[p] = [IdleLister EXCEPT !.pc = "paging",
                                               !.id = lsjob.n + 1],
                              !.mut.overlap = @ \/ MutRuns(lsjob)]
    /\ UNCHANGED <<fileVars, fsVars, rmjob, cpjob, call, wrjob>>

\* one page of the iteration: files.append(obj_dict) for each of its keys
LsDirPage(p) ==
    /\ lsjob.status = "run"
    /\ lsjob.proc[p].pc = "paging"
    /\ LET l == lsjob.proc[p]
           page == Page(lsjob.bucket, l.marker)
           files == l.files \o InKeyOrder(page)
       IN  lsjob' = [lsjob EXCEPT !.proc[p] =
               IF IsTruncated(lsjob.bucket, l.marker)
               THEN [l EXCEPT !.files = files,
                              !.marker = LastKey(page, l.marker)]
               ELSE [l EXCEPT !.files = files, !.pc = "listed",
                              !.done = Len(files)]]
    /\ UNCHANGED <<fileVars, fsVars, rmjob, cpjob, call, wrjob>>

\* a request of the iteration raises: the exception leaves _ls_dir
LsDirFail(p) ==
    /\ lsjob.status = "run"
    /\ lsjob.proc[p].pc = "paging"
    /\ lsjob' = [lsjob EXCEPT !.proc[p] = IdleLister]
    /\ UNCHANGED <<fileVars, fsVars, rmjob, cpjob, call, wrjob>>

MayStoreEarly(l) == l.pc \in {"paging", "listed"}

\* the assignment to the cache stands after the loop over the iterator
MayStore(l) == l.pc = "listed"

\* self.dircache[norm_path] = files
LsDirStore(p) ==
    /\ lsjob.status = "run"
    /\ MayStore(lsjob.proc[p])
    /\ LET l == lsjob.proc[p]
       IN  lsjob' = [lsjob EXCEPT
               !.cache = [k \in (DOMAIN lsjob.cache) \cup {Bucket} |->
                             IF k = Bucket
                             THEN [files |-> l.files, id |-> l.id,
                                   done |-> l.done]
                             ELSE lsjob.cache[k]],
               !.proc[p] = IF lsjob.impl = "sync"
                           THEN [IdleLister EXCEPT !.pc = "copy"]
                           ELSE IdleLister]
    /\ UNCHANGED <<fileVars, fsVars, rmjob, cpjob, call, wrjob>>

\* infos = copy.deepcopy(self.dircache[norm_path]): a KeyError when the
\* entry was invalidated since; either way the call is over
LsDirCopy(p) ==
    /\ lsjob.status = "run"
    /\ lsjob.proc[p].pc = "copy"
    /\ lsjob' = [lsjob EXCEPT !.proc[p] = IdleLister]
    /\ UNCHANGED <<fileVars, fsVars, rmjob, cpjob, call, wrjob>>

\* another client of the bucket puts or deletes a key
LsMutate ==
    /\ lsjob.status = "run"
    /\ \E k \in LsKeys :
        lsjob' = [lsjob EXCEPT !.bucket =
                     IF k \in @ THEN @ \ {k} ELSE @ \cup {k}]
    /\ UNCHANGED <<fileVars, fsVars, rmjob, cpjob, call, wrjob>>

\* invalidate_cache(path) on the listed directory
LsInvalidate ==
    /\ lsjob.status = "run"
    /\ Bucket \in DOMAIN lsjob.cache
    /\ lsjob' = [lsjob EXCEPT !.cache = invalidate_cache(@, Bucket)]
    /\ UNCHANGED <<fileVars, fsVars, rmjob, cpjob, call, wrjob>>

NextLs ==
    \/ \E p \in Listers :
        LsDirBegin(p) \/ LsDirPage(p) \/ LsDirFail(p) \/ LsDirStore(p)
            \/ LsDirCopy(p)
    \/ LsMutate
    \/ LsInvalidate

SpecLs == InitLs /\ [][NextLs]_vars

InFlight(id) ==
    \E p \in Listers : lsjob.proc[p].pc = "paging" /\ lsjob.proc[p].id = id

Writers == {1, 2}
Other(w) == 3 - w

\* the k-th byte written through handle w
RaceBytes(w, k, n) == [i \in 1..n |-> w * 100 + k + i]

InitRace ==
    /\ FileIdle
    /\ FsIdle
    /\ rmjob = [status |-> "idle"]
    /\ cpjob = [pc |-> "idle"]
    /\ call = [op |-> "none"]
    /\ lsjob = [status |-> "idle"]
    /\ \E n \in 0..MaxOld :
        wrjob = [status |-> "run",
                 obj |-> IF n = 0 THEN NoObject
                         ELSE [exists |-> TRUE, data |-> Old(n),
                               appendable |-> TRUE],
                 fh |-> [w \in Writers |-> [NewHandle("wb", 0) EXCEPT !.id = w]],
                 written |-> [w \in Writers |-> <<>>],
                 order |-> <<>>]

\* f.write(data) on handle w
RaceWrite(w) ==
    /\ wrjob.status = "run"
    /\ ~wrjob.fh[w].closed /\ ~wrjob.fh[w].forced
    /\ \E n \in 1..MaxChunk :
         /\ Len(wrjob.written[w]) + n <= MaxTotal
         /\ LET h == wrjob.fh[w]
                data == RaceBytes(w, Len(wrjob.written[w]), n)
                h1 == [h EXCEPT !.buffer = h.buffer \o data,
                                !.loc = h.loc + Len(data)]
                r == IF Len(h1.buffer) >= BlockSize
                     THEN flush(h1, wrjob.obj, FALSE) ELSE <<h1, wrjob.obj>>
            IN  wrjob' = [wrjob EXCEPT !.written[w] = @ \o data,
                                       !.fh[w] = r[1],
                                       !.obj = r[2]]
    /\ UNCHANGED <<fileVars, fsVars, rmjob, cpjob, call, lsjob>>

\* f.close() on handle w: the forced flush commits what is left
RaceClose(w) ==
    /\ wrjob.status = "run"
    /\ ~wrjob.fh[w].closed
    /\ LET h == wrjob.fh[w]
           r == IF h.forced THEN <<h, wrjob.obj>>
                ELSE flush(h, wrjob.obj, TRUE)
       IN  wrjob' = [wrjob EXCEPT !.fh[w] = [r[1] EXCEPT !.closed = TRUE],
                                  !.obj = r[2],
                                  !.order = Append(@, w)]
    /\ UNCHANGED <<fileVars, fsVars, rmjob, cpjob, call, lsjob>>

NextRace == \E w \in Writers : RaceWrite(w) \/ RaceClose(w)

SpecRace == InitRace /\ [][NextRace]_vars

BothCommitted ==
    /\ wrjob.status = "run"
    /\ \A w \in Writers : wrjob.fh[w].closed /\ ~wrjob.fh[w].err

\* C30: when two write handles on the same path are used concurrently and
\* both close without error, the object holds the full payload of the
\* handle that closed last, never a mixture of bytes of both.
C30_LastCommitWins ==
    BothCommitted =>
        /\ wrjob.obj.exists
        /\ wrjob.obj.data = wrjob.written[wrjob.order[Len(wrjob.order)]]

\* the weaker half of C30 alone: the object is the payload of one of the
\* two handles
C30_NoMixture ==
    BothCommitted =>
        \E w \in Writers : wrjob.obj.data = wrjob.written[w]

\* when each handle sent its payload in one request, the last close wins
C30_OneRequestEach ==
    (BothCommitted /\ \A w \in Writers : wrjob.fh[w].chunks = 1) =>
        wrjob.obj.data = wrjob.written[wrjob.order[Len(wrjob.order)]]

\* both handles closed without error and the object starts with bytes of
\* one handle and goes on with bytes of the other
C30_FailingCase ==
    /\ BothCommitted
    /\ Len(wrjob.obj.data) = 2 * BlockSize
    /\ \E w \in Writers :
        /\ wrjob.obj.data[1] = RaceBytes(w, 0, 1)[1]
        /\ wrjob.obj.data[Len(wrjob.obj.data)] \in
               {b + Len(wrjob.written[Other(w)]) : b \in {Other(w) * 100}}

\* ---------------------------------------------------------------------
\* SpecMut: listings of the bucket root on the asynchronous class while one
\* mutation of a key under it is made through the same instance.  Every
\* await of the mutation is a point where the listings can run.
\* ---------------------------------------------------------------------

PutKinds == {"pipe_file", "cp_file", "put_file"}
DeleteKinds == {"rm_file", "bulk_delete"}

\* _pipe_file, _cp_file and _get_batch_delete_key_list call
\* invalidate_cache before the request is awaited; _put_file and _rm_file
\* call it after
InvalidatesLast(kind) == kind \in {"put_file", "rm_file"}
InvalidatesFirst(kind) == kind \in {"pipe_file", "cp_file", "bulk_delete"}

KeyNames == <<"p", "s", "c", "3">>
LsKeyPath(k) == Bucket \o <<Slash, KeyNames[k]>>

\* the path the method passes to invalidate_cache: _pipe_file the path
\* itself, the others its parent
Invalidated(kind, k) ==
    IF kind = "pipe_file" THEN LsKeyPath(k) ELSE _parent(LsKeyPath(k))

InitMut ==
    /\ FileIdle
    /\ FsIdle
    /\ rmjob = [status |-> "idle"]
    /\ cpjob = [pc |-> "idle"]
    /\ call = [op |-> "none"]
    /\ wrjob = [status |-> "idle"]
    /\ \E b \in SUBSET LsKeys :
        lsjob = [status |-> "run", impl |-> "async", bucket |-> b,
                 cache |-> EmptyCache, n |-> 0,
                 proc |-> [p \in Listers |-> IdleLister],
                 mut |-> NoMut]

\* the method up to its first await
MutBegin ==
    /\ lsjob.status = "run" /\ lsjob.impl = "async"
    /\ lsjob.mut.pc = "idle"
    /\ \E kind \in PutKinds \cup DeleteKinds, k \in LsKeys :
        lsjob' = [lsjob EXCEPT
            !.mut = [pc |-> "run", kind |-> kind, key |-> k,
                     overlap |-> \E p \in Listers :
                                    lsjob.proc[p].pc # "idle"],
            !.cache = IF InvalidatesFirst(kind)
                      THEN invalidate_cache(@, Invalidated(kind, k))
                      ELSE @]
    /\ UNCHANGED <<fileVars, fsVars, rmjob, cpjob, call, wrjob>>

\* the backend serves the request: the key is there, or is gone
MutRequest ==
    /\ lsjob.status = "run"
    /\ lsjob.mut.pc = "run"
    /\ lsjob' = [lsjob EXCEPT
            !.mut.pc = "answered",
            !.bucket = IF lsjob.mut.kind \in PutKinds
                       THEN @ \cup {lsjob.mut.key}
                       ELSE @ \ {lsjob.mut.key}]
    /\ UNCHANGED <<fileVars, fsVars, rmjob, cpjob, call, wrjob>>

\* the await returns and the method runs to its end
MutReturn ==
    /\ lsjob.status = "run"
    /\ lsjob.mut.pc = "answered"
    /\ lsjob' = [lsjob EXCEPT
            !.mut.pc = "done",
            !.cache = IF InvalidatesLast(lsjob.mut.kind)
                      THEN invalidate_cache(@,
                               Invalidated(lsjob.mut.kind, lsjob.mut.key))
                      ELSE @]
    /\ UNCHANGED <<fileVars, fsVars, rmjob, cpjob, call, wrjob>>

NextMut ==
    \/ \E p \in Listers : LsDirBegin(p) \/ LsDirPage(p) \/ LsDirStore(p)
    \/ MutBegin
    \/ MutRequest
    \/ MutReturn

SpecMut == InitMut /\ [][NextMut]_vars

\* the mutation and every listing have completed
AllCompleted ==
    /\ lsjob.status = "run"
    /\ lsjob.mut.pc = "done"
    /\ \A p \in Listers : lsjob.proc[p].pc = "idle"

\* a cached listing has the key a put-like mutation stored and has not the
\* key a delete removed
HasEffect(files, mut) ==
    (mut.kind \in PutKinds) <=> (\E i \in 1..Len(files) : files[i] = mut.key)

\* C31: in async mode, when a standard listing of directory D was in
\* flight while a mutation under D ran, then once both have completed the
\* directory cache holds no listing of D that lacks the mutation's effect.
C31_NoStaleListingAfterRace ==
    (AllCompleted /\ lsjob.mut.overlap) =>
        \A k \in DOMAIN lsjob.cache : HasEffect(lsjob.cache[k].files, lsjob.mut)

\* the same without the race: no listing was in flight at any moment of the
\* mutation
C31_SerialCoherent ==
    (AllCompleted /\ ~lsjob.mut.overlap) =>
        \A k \in DOMAIN lsjob.cache : HasEffect(lsjob.cache[k].files, lsjob.mut)

\* a put_file completed, the listing that raced with it completed, and the
\* cached listing of the directory has not the new key
C31_FailingCase ==
    /\ AllCompleted /\ lsjob.mut.overlap
    /\ lsjob.mut.kind = "put_file"
    /\ lsjob.mut.key \in lsjob.bucket
    /\ Bucket \in DOMAIN lsjob.cache
    /\ ~HasEffect(lsjob.cache[Bucket].files, lsjob.mut)

\* the same of a pipe_file, which invalidates before its request is served
C31_FailingCaseEarly ==
    /\ AllCompleted /\ lsjob.mut.overlap
    /\ lsjob.mut.kind = "pipe_file"
    /\ Bucket \in DOMAIN lsjob.cache
    /\ lsjob.cache[Bucket].id = 1
    /\ ~HasEffect(lsjob.cache[Bucket].files, lsjob.mut)

\* ---------------------------------------------------------------------
\* SpecDyn: cat_file under dynamic_block_size, attempt by attempt.
\* ---------------------------------------------------------------------

\* OSSFile.DEFAULT_BLOCK_SIZE, and smaller values of the class attribute,
\* which bring the halved size down to the floor the wrapper tests
DefaultBlockBytes == 5242880
DynDefaults == {1, 2, 5, 16, 70, DefaultBlockBytes}
\* the block_size keyword of the call: None for a call without one
SuppliedSizes == {None, 0, 1, 4}
\* retry_count >= 5
DynRetries == 5

\* `if not block_size`: None and 0 are taken as no block size
UserSpecified(supplied) == ~(supplied = None \/ supplied = 0)

\* `if user_specified or block_size < 2 or retry_count >= 5: raise error`
GivesUpLate(c) ==
    c.user_specified \/ c.block_size < 2 \/ c.retry_count > DynRetries
GivesUp(c) ==
    c.user_specified \/ c.block_size < 2 \/ c.retry_count >= DynRetries

\* fs.cat_file(path, block_size=supplied) is called: the wrapper's locals
\* before the loop (attempts and sizes are ghost fields: the calls of the
\* wrapped function made and the block size of each)
CatFileStart ==
    /\ call = NoCall
    /\ \E supplied \in SuppliedSizes, default \in DynDefaults :
         call' = [op |-> "cat_file", pc |-> "try", supplied |-> supplied,
                  block_size |-> IF UserSpecified(supplied) THEN supplied
                                 ELSE default,
                  user_specified |-> UserSpecified(supplied),
                  retry_count |-> 0, attempts |-> 0, sizes |-> <<>>,
                  exc |-> ""]
    /\ UNCHANGED <<fileVars, fsVars, rmjob, cpjob, lsjob, wrjob>>

\* one turn of `while True`: the wrapped function returns, raises a
\* RequestError, or raises another error, which the wrapper lets through
CatFileAttempt ==
    /\ call.op = "cat_file" /\ call.pc = "try"
    /\ \E answer \in {"ok", "RequestError", "FileNotFoundError"} :
         LET c == [call EXCEPT !.attempts = @ + 1,
                               !.sizes = Append(@, call.block_size)]
         IN  call' =
               IF answer = "ok" THEN [c EXCEPT !.pc = "returned"]
               ELSE IF answer # "RequestError" \/ GivesUp(call)
                    THEN [c EXCEPT !.pc = "raised", !.exc = answer]
                    ELSE [c EXCEPT !.block_size = @ \div 2,
                                   !.retry_count = @ + 1]
    /\ UNCHANGED <<fileVars, fsVars, rmjob, cpjob, lsjob, wrjob>>

NextDyn == CatFileStart \/ CatFileAttempt

SpecDyn == InitCall /\ [][NextDyn]_vars /\ WF_vars(CatFileAttempt)

CatFileOver == call.op = "cat_file" /\ call.pc \in {"returned", "raised"}

\* what holds of a cat_file at every moment
DynSafe ==
    call.op = "cat_file" =>
        /\ call.attempts <= DynRetries + 1
        /\ \A i \in 1..(Len(call.sizes) - 1) :
            /\ call.sizes[i + 1] = call.sizes[i] \div 2
            /\ call.sizes[i] >= 2
        /\ (call.supplied # None /\ call.supplied > 0) =>
            /\ call.attempts <= 1
            /\ call.pc = "try" => call.attempts = 0
        /\ (call.pc = "raised" /\ call.exc = "RequestError"
              /\ ~(call.supplied # None /\ call.supplied > 0)) =>
            \/ call.attempts = DynRetries + 1
            \/ call.sizes[Len(call.sizes)] < 2

\* C36: a read under the dynamic block-size retry, called without a block
\* size, retries each transient request error with the block size halved,
\* makes at most 6 attempts, retries no more once the block size is below
\* 2, and always ends with a result or an error; called with a block size
\* it raises the first transient error with no retry.
C36_DynamicRetry ==
    /\ []DynSafe
    /\ (call.op = "cat_file") ~> CatFileOver

\* six attempts, each with half the block size of the one before, and the
\* sixth RequestError raised
C36_Witness ==
    /\ call.op = "cat_file" /\ call.pc = "raised" /\ call.exc = "RequestError"
    /\ call.supplied = None
    /\ call.attempts = DynRetries + 1
    /\ call.sizes[1] = DefaultBlockBytes
    /\ call.sizes[DynRetries + 1] = 163840

\* the halved block size fell below 2 and the next error was raised
C36_WitnessFloor ==
    /\ call.op = "cat_file" /\ call.pc = "raised" /\ call.exc = "RequestError"
    /\ call.supplied = None
    /\ call.sizes = <<5, 2, 1>>

\* a caller's block size: one attempt, the error raised
C36_WitnessSupplied ==
    /\ call.op = "cat_file" /\ call.pc = "raised" /\ call.exc = "RequestError"
    /\ call.supplied = 4
    /\ call.sizes = <<4>>

\* ---------------------------------------------------------------------
\* SpecWarm: the read-only calls alone, on a backend that does not change.
\* The cache fills as the calls list; what a call answers with the cache as
\* it is, is compared with what it answers with an empty cache.
\* ---------------------------------------------------------------------

\* AioOSSFileSystem._ls_buckets(): [infos, cache]
Aio_ls_buckets_cached(cache) ==
    IF <<>> \notin DOMAIN cache
    THEN [infos |-> _ls_bucket, cache |-> Put(cache, <<>>, _ls_bucket)]
    ELSE [infos |-> cache[<<>>], cache |-> cache]

\* AbstractFileSystem._ls_from_cache(path): a listing, None, or
\* FileNotFoundError when the parent was listed and has no entry of the name
FromParent(files) ==
    IF files = {} THEN [kind |-> "raise", out |-> {}]
    ELSE [kind |-> "hit", out |-> files]
_ls_from_cache(cache, path) ==
    IF RStrip(path) \in DOMAIN cache
    THEN [kind |-> "hit", out |-> cache[RStrip(path)]]
    ELSE IF _parent(path) \in DOMAIN cache
    THEN FromParent({f \in cache[_parent(path)] :
                        \/ f.name = path
                        \/ f.name = RStrip(path) /\ f.type = "directory"})
    ELSE [kind |-> "none", out |-> {}]

Found(type, cache) == [found |-> TRUE, type |-> type, cache |-> cache]
NotFound(cache) == [found |-> FALSE, type |-> "none", cache |-> cache]

\* the branch of _info that answers from the cache
InfoFromCache(out, cache) ==
    IF out # {} THEN Found((CHOOSE o \in out : TRUE).type, cache)
    ELSE Found("directory", cache)

\* the bucket branch of _info: the name is looked up in _ls_buckets()
InfoOfBucket(r, norm_path) ==
    IF \E b \in r.infos : b.name = RStrip(norm_path)
    THEN Found("directory", r.cache) ELSE NotFound(r.cache)

\* the branch of _info that asks the backend: head_object, then one listing
\* under key.rstrip("/") + "/"
InfoFromBackend(st, cache, norm_path, key) ==
    IF key = <<>> THEN InfoOfBucket(Aio_ls_buckets_cached(cache), norm_path)
    ELSE IF key \in st THEN Found("file", cache)
    ELSE IF BackendList(st, ListPrefix(RStrip(key), <<>>), "/") # {}
    THEN Found("directory", cache)
    ELSE NotFound(cache)

InfoNorm(st, cache, norm_path, c) ==
    IF c.kind = "raise" THEN NotFound(cache)
    ELSE IF c.kind = "hit"
    THEN InfoFromCache({o \in c.out : Strip(o.name) = norm_path}, cache)
    ELSE InfoFromBackend(st, cache, norm_path, split_path(norm_path)[2])

\* AioOSSFileSystem._info(path): [found, type, cache]; not found is
\* FileNotFoundError
Aio_info(st, cache, path) ==
    IF LStrip(_strip_protocol(path)) = <<>> THEN Found("directory", cache)
    ELSE InfoNorm(st, cache, LStrip(_strip_protocol(path)),
                  _ls_from_cache(cache, LStrip(_strip_protocol(path))))

\* AsyncFileSystem._exists over _info: [res, cache]
Aio_exists(st, cache, path) ==
    [res |-> Aio_info(st, cache, path).found,
     cache |-> Aio_info(st, cache, path).cache]

\* AioOSSFileSystem._cache_result_analysis(norm_path, parent)
NamedAsDirectory(cache, norm_path, parent) ==
    \E f \in cache[parent] : f.name = norm_path /\ f.type = "directory"
_cache_result_analysis(cache, norm_path, parent) ==
    IF norm_path \in DOMAIN cache
    THEN \E f \in cache[norm_path] : f.name # norm_path
    ELSE NamedAsDirectory(cache, norm_path, parent)

IsdirListed(r) == [res |-> r.infos # {}, cache |-> r.cache]
IsdirOfBucket(r, norm_path) ==
    [res |-> \E b \in r.infos : b.name = norm_path, cache |-> r.cache]

\* AioOSSFileSystem._isdir(path): [res, cache]
IsdirNorm(st, cache, norm_path) ==
    IF norm_path = <<>> THEN [res |-> TRUE, cache |-> cache]
    ELSE IF ~HasSlash(norm_path)
    THEN IsdirOfBucket(Aio_ls_buckets_cached(cache), norm_path)
    ELSE IF norm_path \in DOMAIN cache \/ _parent(norm_path) \in DOMAIN cache
    THEN [res |-> _cache_result_analysis(cache, norm_path, _parent(norm_path)),
          cache |-> cache]
    ELSE IsdirListed(Aio_ls_dir(st, cache, norm_path, FALSE, "/", <<>>))
Aio_isdir(st, cache, path) == IsdirNorm(st, cache, Strip(_strip_protocol(path)))

\* AbstractFileSystem.isdir over info, of the sync class: [res, cache]
isdir(st, cache, path) ==
    [res |-> info(st, cache, path).found /\ info(st, cache, path).type = "directory",
     cache |-> info(st, cache, path).cache]

\* fs.isdir(path)
Isdir ==
    /\ impl = "sync"
    /\ \E path \in QueryPaths :
         /\ dircache' = isdir(store, dircache, path).cache
         /\ last' = [NoOp EXCEPT !.op = "isdir", !.path = path,
                        !.ok = isdir(store, dircache, path).res]
    /\ UNCHANGED <<impl, store, fileVars, jobVars>>

\* fs._info(path) of the async class
AioInfo ==
    /\ impl = "async"
    /\ \E path \in QueryPaths :
         /\ dircache' = Aio_info(store, dircache, path).cache
         /\ last' = [NoOp EXCEPT !.op = "info", !.path = path,
                        !.ok = Aio_info(store, dircache, path).found]
    /\ UNCHANGED <<impl, store, fileVars, jobVars>>

\* fs._exists(path) of the async class
AioFsExists ==
    /\ impl = "async"
    /\ \E path \in QueryPaths :
         /\ dircache' = Aio_exists(store, dircache, path).cache
         /\ last' = [NoOp EXCEPT !.op = "exists", !.path = path,
                        !.ok = Aio_exists(store, dircache, path).res]
    /\ UNCHANGED <<impl, store, fileVars, jobVars>>

\* fs._isdir(path) of the async class
AioIsdir ==
    /\ impl = "async"
    /\ \E path \in QueryPaths :
         /\ dircache' = Aio_isdir(store, dircache, path).cache
         /\ last' = [NoOp EXCEPT !.op = "isdir", !.path = path,
                        !.ok = Aio_isdir(store, dircache, path).res]
    /\ UNCHANGED <<impl, store, fileVars, jobVars>>

NextWarm ==
    \/ Ls \/ Exists \/ Info \/ Isdir
    \/ AioLs \/ AioFsExists \/ AioInfo \/ AioIsdir

SpecWarm == Init /\ [][NextWarm]_vars

\* what the four calls answer for a path, given the cache
SyncAnswers(cache, path) ==
    [exists |-> exists(store, cache, path).res,
     isdir |-> isdir(store, cache, path).res,
     info |-> <<info(store, cache, path).found, info(store, cache, path).type>>,
     ls |-> ls(store, cache, path).infos]
AioAnswers(cache, path) ==
    [exists |-> Aio_exists(store, cache, path).res,
     isdir |-> Aio_isdir(store, cache, path).res,
     info |-> <<Aio_info(store, cache, path).found,
                Aio_info(store, cache, path).type>>,
     ls |-> {[e EXCEPT !.name = Pretified(path, e.name)] :
                e \in Aio_ls(store, cache, path, FALSE).infos}]
AnswersWith(cache, path) ==
    IF impl = "sync" THEN SyncAnswers(cache, path) ELSE AioAnswers(cache, path)

\* C39: with the backend unchanged, exists, isdir, info and ls answer for
\* every path as they do with an empty cache, whatever the earlier read-only
\* calls have put into the cache, and the ls call just made answers the same
\* when it is made again.
C39_WarmAsCold ==
    /\ \A path \in QueryPaths :
          AnswersWith(dircache, path) = AnswersWith(EmptyCache, path)
    /\ last.op = "ls" =>
          AnswersWith(dircache, last.path).ls
              = {IF impl = "sync" THEN last.listed[i]
                 ELSE [last.listed[i] EXCEPT
                          !.name = Pretified(last.path, last.listed[i].name)] :
                   i \in DOMAIN last.listed}

\* C39 for the sync class alone
C39_SyncWarmAsCold == (impl = "sync") => C39_WarmAsCold

\* C39, the failing case: the async class has listed the bucket, which has
\* the directory p3/; isdir, info and exists of b/p3 say it is no directory
\* or not there, and said the opposite before the listing.
C39_FailingCase ==
    /\ impl = "async" /\ store = {KeyP3S}
    /\ Bucket \in DOMAIN dircache
    /\ ~Aio_isdir(store, dircache, PathOf(KeyP3)).res
    /\ ~Aio_exists(store, dircache, PathOf(KeyP3)).res
    /\ Aio_isdir(store, EmptyCache, PathOf(KeyP3)).res
    /\ Aio_exists(store, EmptyCache, PathOf(KeyP3)).res

====
